---- MODULE Spec2Model ----
(***************************************************************************)
(* Coder Bot: the conversation and action orchestration engine.            *)
(*                                                                         *)
(*   src/main.py                      webhook endpoint, dispatch, gating   *)
(*   src/bot/conversation_manager.py  ConversationManager                  *)
(*   src/bot/database.py              DatabaseManager (SQLite store)       *)
(*   src/bot/ai_client.py             AIClient (model backend, parser)     *)
(*   src/bot/github_app.py            GitHubApp (repository transport)     *)
(*                                                                         *)
(* A model reply is a sequence of text fragments (tokens); the raw text is *)
(* their concatenation.  Each request-handling thread of the Flask server  *)
(* is a worker with a program counter that follows the code's call chain.  *)
(***************************************************************************)
EXTENDS Integers, Sequences, FiniteSets, TLC

VARIABLES
    conversations,  \* table conversations: set of rows
    messages,       \* table messages: rows in insertion order
    agent_actions,  \* table agent_actions: rows in insertion order
    pc,             \* per worker: position in the call chain
    payload,        \* per worker: the webhook payload being handled
    conv_id,        \* per worker: conversation_id local of the handler
    ai_response,    \* per worker: ai_response local of _generate_ai_response
    idx,            \* per worker: loop position of _execute_ai_actions
    trace,          \* per worker: effects of the current event, in order
    resp,           \* per worker: HTTP response of the last finished request
    served,         \* number of webhooks received so far
    history,        \* per worker: messages local of _generate_ai_response,
                    \*   as positions of the ledger
    raw,            \* parser harness: the raw reply
    parsed,         \* parser harness: the result of _parse_ai_response
    backend,        \* backend harness: the configured model, what the backend
                    \*   answers to each request, and the result of the call
    clock,          \* the wall clock, in ticks
    token_cache,    \* GitHubApp.token_cache: installation id -> entry
    tok,            \* per worker: the token cache call in progress
    minted,         \* every token the integration has minted so far
    repo,           \* per worker: the repository as GitHub serves it to the
                    \*   event being handled
    repo_context,   \* per worker: repo_context local of _generate_ai_response
    calls           \* per worker: the writing calls of GitHubApp made for the
                    \*   current event, with their arguments, in order

vars == <<conversations, messages, agent_actions, pc, payload, conv_id,
          ai_response, idx, trace, resp, served, history, raw, parsed, backend,
          clock,
          token_cache, tok, minted, repo, repo_context, calls>>

storeVars == <<conversations, messages, agent_actions>>
ctxVars == <<repo, repo_context>>
workerVars == <<pc, payload, conv_id, ai_response, idx, trace, resp, served,
                history, ctxVars, calls>>
parseVars == <<raw, parsed, backend>>
tokenVars == <<token_cache, tok, minted>>
\* What a webhook request leaves alone: the parser harness, the clock and
\* the token cache.
otherVars == <<parseVars, clock, tokenVars>>

(***************************************************************************)
(* Bounds of the model.                                                    *)
(***************************************************************************)
MaxLen == 6        \* longest raw reply of the parser harness, in fragments
MaxActions == 3    \* longest action batch in a model reply
MaxEvents == 2     \* webhooks received in one run of the concurrent model
MaxExecEvents == 1 \* webhooks received in one run of the executor model
MaxClock == 2      \* ticks of the wall clock in one run
MaxMints == 2      \* tokens minted in one run of the token cache model
MaxBacklog == 21   \* messages a conversation holds when the history model starts
MaxLifeEvents == 2 \* webhooks received in one run of the lifecycle model
MaxRows == 2       \* messages appended in one run of the store model
MaxRequests == 3   \* requests the backend answers in one run of the backend model

Workers == {"w1", "w2"}
ExecWorker == "w1"

None == 0          \* Python None for a conversation id

(***************************************************************************)
(* Text.  A raw reply is a sequence of fragments:                          *)
(*   ws     a run of whitespace                                            *)
(*   txt    ordinary prose without whitespace at its ends ("Hello",        *)
(*          "not valid data"); never a JSON document                       *)
(*   fence  three backticks                                                *)
(*   json   the word json                                                  *)
(*   val    the serialisation of one JSON value, field j                   *)
(* so the fence-open marker ```json is <<fence, json>> and the fence-close *)
(* marker ``` is <<fence>>.                                                *)
(***************************************************************************)
Action(obj, type) ==
    [obj |-> obj, type |-> type, repository |-> "", installation_id |-> 0]

\* An action object that carries keys naming a repository and an
\* installation besides its type tag.
ActionNaming(type, repository, installation_id) ==
    [obj |-> TRUE, type |-> type, repository |-> repository,
     installation_id |-> installation_id]

KnownTypes == {"create_file", "update_file", "create_pr", "create_branch"}

\* The action values a reply may carry: the four known tags, an unknown tag,
\* and a JSON value that is not an object (a string, a number).
ActionValues ==
    {Action(TRUE, t) : t \in KnownTypes \cup {"delete_file"}}
        \cup {Action(FALSE, ""), ActionNaming("create_file", "x/y", 2)}

JNone == [t |-> "none", has_actions |-> FALSE, actions |-> <<>>]
JObject(acts) == [t |-> "object", has_actions |-> TRUE, actions |-> acts]
JEmptyObject == [t |-> "object", has_actions |-> FALSE, actions |-> <<>>]
JNumber == [t |-> "number", has_actions |-> FALSE, actions |-> <<>>]
JNull == [t |-> "null", has_actions |-> FALSE, actions |-> <<>>]
JArray == [t |-> "array", has_actions |-> FALSE, actions |-> <<>>]

Ws == [k |-> "ws", j |-> JNone]
Txt == [k |-> "txt", j |-> JNone]
Fence == [k |-> "fence", j |-> JNone]
Json == [k |-> "json", j |-> JNone]
Val(j) == [k |-> "val", j |-> j]

FenceOpen == <<Fence, Json>>
FenceClose == <<Fence>>

\* str.find(pat, from): the least position >= from where pat occurs, 0 if none
\* (Python's -1; positions here count from 1).
Find(s, pat, from) ==
    LET hits == {i \in from..(Len(s) - Len(pat) + 1) :
                    SubSeq(s, i, i + Len(pat) - 1) = pat}
    IN IF hits = {} THEN 0 ELSE CHOOSE i \in hits : \A h \in hits : i <= h

\* str.strip(): whitespace removed at both ends.
RECURSIVE LStrip(_)
LStrip(s) == IF s # <<>> /\ Head(s) = Ws THEN LStrip(Tail(s)) ELSE s

RECURSIVE RStrip(_)
RStrip(s) ==
    IF s # <<>> /\ s[Len(s)] = Ws THEN RStrip(SubSeq(s, 1, Len(s) - 1)) ELSE s

\* Whitespace removed at the left end only.
Strip_LeftOnly(s) == LStrip(s)

Strip(s) == RStrip(LStrip(s))

\* json.loads(text): the decoded value, or JSONDecodeError.  A text decodes
\* when it is one serialised value; digits written one after the other are
\* again a number; anything else (prose, the word json, two values, nothing)
\* is malformed.
JsonLoads(text) ==
    IF Len(text) = 1 /\ text[1].k = "val"
        THEN [ok |-> TRUE, value |-> text[1].j]
    ELSE IF text # <<>> /\ \A i \in 1..Len(text) : text[i] = Val(JNumber)
        THEN [ok |-> TRUE, value |-> JNumber]
    ELSE [ok |-> FALSE, value |-> JNone]

\* 'actions' in action_data: key lookup on an object, membership on an
\* array, and TypeError on a number or null.
InRaises(value) == value.t \in {"number", "null"}

ParseResult(raised, content, actions) ==
    [raised |-> raised, content |-> content, actions |-> actions]

\* The fenced block that starts at position open, as the try block of
\* _parse_ai_response reads it: where the body starts and where the next
\* fence is (0 if there is none).
JsonStart(open) == open + Len(FenceOpen)
JsonEnd(response, open) == Find(response, FenceClose, JsonStart(open))

\* The try block with the prose trimmed before the body is decoded, so that
\* a malformed body loses the block and the whitespace.
ParseBlock_TrimFirst(response, open) ==
    LET json_end == JsonEnd(response, open)
        prose == Strip(SubSeq(response, 1, open - 1))
    IN  IF ~(json_end # 0 /\ json_end > JsonStart(open))
        THEN ParseResult(FALSE, response, <<>>)
        ELSE
        LET action_data ==
                JsonLoads(Strip(SubSeq(response, JsonStart(open), json_end - 1)))
        IN  IF ~action_data.ok THEN ParseResult(FALSE, prose, <<>>)
            ELSE IF InRaises(action_data.value)
            THEN ParseResult(TRUE, response, <<>>)
            ELSE ParseResult(FALSE, prose,
                    IF action_data.value.has_actions
                        THEN action_data.value.actions ELSE <<>>)

\* AIClient._parse_ai_response, the try block entered when the fence-open
\* marker is in the text: content and actions are replaced only after
\* json.loads has returned, so JSONDecodeError leaves content = response.
ParseBlock(response, open) ==
    LET json_start == JsonStart(open)
        json_end == JsonEnd(response, open)
    IN  IF ~(json_end # 0 /\ json_end > json_start)
        THEN ParseResult(FALSE, response, <<>>)
        ELSE
        LET json_str == Strip(SubSeq(response, json_start, json_end - 1))
            action_data == JsonLoads(json_str)
        IN  IF ~action_data.ok
            THEN ParseResult(FALSE, response, <<>>)
            ELSE IF InRaises(action_data.value)
            THEN ParseResult(TRUE, response, <<>>)
            ELSE ParseResult(FALSE,
                    Strip(SubSeq(response, 1, open - 1)),
                    IF action_data.value.has_actions
                        THEN action_data.value.actions ELSE <<>>)

\* The parser trimming a reply that has no block.
ParseAiResponse_StripsProse(response) ==
    LET open == Find(response, FenceOpen, 1)
    IN  IF open = 0
        THEN ParseResult(FALSE, Strip(response), <<>>)
        ELSE ParseBlock(response, open)

\* AIClient._parse_ai_response
ParseAiResponse(response) ==
    LET open == Find(response, FenceOpen, 1)
    IN  IF open = 0
        THEN ParseResult(FALSE, response, <<>>)
        ELSE ParseBlock(response, open)

(***************************************************************************)
(* The store (src/bot/database.py).  All workers share one SQLite          *)
(* connection, so every statement takes effect for all of them at once.    *)
(***************************************************************************)
\* A row of table conversations; created_at and updated_at default to
\* CURRENT_TIMESTAMP (now).
ConversationRow(id, installation_id, repo_full_name, context_type, context_number, status, now) ==
    [id |-> id, installation_id |-> installation_id,
     repo_full_name |-> repo_full_name, context_type |-> context_type,
     context_number |-> context_number, status |-> status,
     created_at |-> now, updated_at |-> now]

Key(row) == <<row.installation_id, row.repo_full_name, row.context_type,
              row.context_number>>

\* str(uuid.uuid4()): an id no row carries; the least one, which is
\* Cardinality(rows) + 1 as long as no row has been deleted.
NewConversationId(rows) ==
    CHOOSE n \in 1..(Cardinality(rows) + 1) :
        /\ \A r \in rows : r.id # n
        /\ \A m \in 1..(n - 1) : \E r \in rows : r.id = m

\* The table declared without its UNIQUE constraint.
UniqueViolation_NoConstraint(rows, row) == FALSE

\* UNIQUE(installation_id, repo_full_name, context_type, context_number)
UniqueViolation(rows, row) == \E r \in rows : Key(r) = Key(row)

\* DatabaseManager.create_conversation: the INSERT raises
\* sqlite3.IntegrityError when the composite key is already present.
CreateConversationDb(rows, installation_id, repo_full_name, context_type, context_number, status, now) ==
    LET row == ConversationRow(NewConversationId(rows), installation_id,
                               repo_full_name, context_type, context_number,
                               status, now)
    IN  IF UniqueViolation(rows, row)
        THEN [raised |-> TRUE, rows |-> rows, id |-> None]
        ELSE [raised |-> FALSE, rows |-> rows \cup {row}, id |-> row.id]

\* DatabaseManager.get_conversation: the rows the SELECT matches.
GetConversationDb(rows, installation_id, repo_full_name, context_type, context_number) ==
    {r \in rows : Key(r) = <<installation_id, repo_full_name, context_type,
                             context_number>>}

\* DatabaseManager.get_conversation_by_id
GetConversationById(rows, id) == {r \in rows : r.id = id}

\* DatabaseManager.get_conversation_by_context: SELECT ... WHERE
\* repo_full_name = ? AND context_number = ? ORDER BY created_at DESC LIMIT 1.
\* The rows the query may return: a matching row that no matching row is
\* newer than.
GetConversationByContext(rows, repo_full_name, context_number) ==
    LET hits == {r \in rows : /\ r.repo_full_name = repo_full_name
                              /\ r.context_number = context_number}
    IN  {r \in hits : \A h \in hits : h.created_at <= r.created_at}

\* DatabaseManager.update_conversation_status: UPDATE conversations SET
\* status = ?, updated_at = CURRENT_TIMESTAMP WHERE id = ?
UpdateConversationStatus(rows, id, status, now) ==
    {IF r.id = id THEN [r EXCEPT !.status = status, !.updated_at = now] ELSE r :
        r \in rows}

MessageRow(conversation_id, role, content, author, github_event_type) ==
    [conversation_id |-> conversation_id, role |-> role, content |-> content,
     author |-> author, github_event_type |-> github_event_type,
     created_at |-> 0]

\* add_message stamping created_at from a clock that runs backwards.
AddMessageRows_ClockBackwards(msgs, row, now) ==
    Append(msgs, [row EXCEPT !.created_at = 0 - now])

\* DatabaseManager.add_message: INSERT INTO messages, created_at defaulting
\* to CURRENT_TIMESTAMP (now), then the owning conversation's updated_at is
\* bumped.  The position of a row in msgs is its rowid.
AddMessageRows(msgs, row, now) == Append(msgs, [row EXCEPT !.created_at = now])

\* ConversationManager.max_context_messages
max_context_messages == 20

\* The query without its LIMIT.
GetConversationMessages_NoLimit(msgs, conversation_id, limit) ==
    LET rows == {i \in 1..Len(msgs) : msgs[i].conversation_id = conversation_id}
        Rank(i) == Cardinality({j \in rows : j < i}) + 1
    IN  [k \in 1..Cardinality(rows) |-> CHOOSE i \in rows : Rank(i) = k]

\* DatabaseManager.get_conversation_messages: SELECT ... WHERE
\* conversation_id = ? ORDER BY created_at ASC LIMIT ?, as rowids.  Rows of
\* one created_at come out in rowid order.
GetConversationMessages(msgs, conversation_id, limit) ==
    LET rows == {i \in 1..Len(msgs) : msgs[i].conversation_id = conversation_id}
        Before(i, j) ==
            \/ msgs[i].created_at < msgs[j].created_at
            \/ msgs[i].created_at = msgs[j].created_at /\ i < j
        Rank(i) == Cardinality({j \in rows : Before(j, i)}) + 1
        sorted == [k \in 1..Cardinality(rows) |-> CHOOSE i \in rows : Rank(i) = k]
    IN  SubSeq(sorted, 1, IF Len(sorted) < limit THEN Len(sorted) ELSE limit)

\* DatabaseManager.add_message, "Update conversation timestamp".
Touch(rows, id, now) ==
    {IF r.id = id THEN [r EXCEPT !.updated_at = now] ELSE r : r \in rows}

\* SQL NULL in a TIMESTAMP column
NullTime == -1

\* DatabaseManager.record_agent_action
RecordAgentAction(acts, conversation_id, action_type, action_data) ==
    Append(acts, [conversation_id |-> conversation_id,
                  action_type |-> action_type, action_data |-> action_data,
                  status |-> "pending", error_message |-> "",
                  completed_at |-> NullTime])

\* DatabaseManager.update_agent_action
UpdateAgentAction(acts, i, status, error_message, now) ==
    [acts EXCEPT ![i].status = status, ![i].error_message = error_message,
                 ![i].completed_at = IF status = "completed" THEN now ELSE @]

\* The retention rule taking every old conversation, archived or not.
Expired_AnyStatus(rows, cutoff) == {r \in rows : r.updated_at < cutoff}

\* cleanup_old_data, the subquery: status = 'archived' AND updated_at <
\* datetime('now', '-N days').
Expired(rows, cutoff) ==
    {r \in rows : r.status = "archived" /\ r.updated_at < cutoff}

\* DELETE FROM messages WHERE conversation_id IN (ids)
DeleteMessagesOf(msgs, ids) ==
    SelectSeq(msgs, LAMBDA m : m.conversation_id \notin ids)

\* cleanup_old_data, the third DELETE: completed actions older than the
\* cutoff.
DeleteCompletedActions(acts, cutoff) ==
    SelectSeq(acts, LAMBDA a :
        ~(/\ a.status = "completed"
          /\ a.completed_at # NullTime
          /\ a.completed_at < cutoff))

(***************************************************************************)
(* Webhook payloads.  A text field (title, body) is kept as what the       *)
(* gating policy reads in it: "" empty, "plain", "kw" holding a keyword,   *)
(* "KW" holding a keyword in capitals, "@bot" mentioning the bot's handle, *)
(* "@bot kw" both; NullText is JSON null, which GitHub sends as the body   *)
(* of an issue, pull request or review submitted without a description.    *)
(***************************************************************************)
NullText == "<null>"

\* payload['changes'] of an 'edited' delivery: which keys it has, the length
\* of changes.body.from, whether changes.body has a key 'to' and the length
\* of its value.
Changes(title, body, from_len, has_to, to_len) ==
    [title |-> title, body |-> body, from_len |-> from_len,
     has_to |-> has_to, to_len |-> to_len]

NoChanges == Changes(FALSE, FALSE, 0, FALSE, 0)

\* body_len: the length of the body the payload carries (after an edit, the
\* new body).
Payload(event, action, installation_id, repo_full_name, number, is_pr, sender_type, title, body, review_state, signed) ==
    [event |-> event, action |-> action, installation_id |-> installation_id,
     repo_full_name |-> repo_full_name, number |-> number, is_pr |-> is_pr,
     sender_type |-> sender_type, title |-> title, body |-> body,
     review_state |-> review_state, signed |-> signed,
     signature |-> IF signed THEN "match" ELSE "mismatch",
     changes |-> NoChanges, body_len |-> 0]

NoPayload == Payload("", "", 0, "", 0, FALSE, "", "", "", "", FALSE)

\* The delivery p with another X-Hub-Signature-256 header: "match" the
\* HMAC of the body, "mismatch" another digest, "" no header, "non-ascii" a
\* header holding a character outside ASCII.
WithSignature(p, signature) ==
    [p EXCEPT !.signature = signature, !.signed = (signature = "match")]

\* str.lower()
Lower(text) == IF text = "KW" THEN "kw" ELSE text

\* f'@{bot_username}' in text: case-sensitive.
Mentions(text) == text \in {"@bot", "@bot kw"}

\* keyword.lower() in text.lower(), for one of the keywords
HasKeyword(text) == Lower(text) \in {"kw", "@bot kw"}

\* What a should_respond_* function does: it returns a bool, or raises.
Returns(value) == [raised |-> FALSE, value |-> value]
RaisesTypeError == [raised |-> TRUE, value |-> FALSE]

\* should_respond_to_comment without its sender check.
ShouldRespondToComment_NoSenderCheck(p) == Returns(Mentions(p.body))

\* verify_webhook_signature letting a delivery without signature through.
VerifyWebhookSignature_AcceptsMissing(p) ==
    IF p.signature = "non-ascii" THEN RaisesTypeError
    ELSE Returns(p.signature \in {"", "match"})

\* GitHubApp.verify_webhook_signature: False without the header; otherwise
\* hmac.compare_digest(signature, expected), which raises TypeError on a
\* str with a character outside ASCII.
VerifyWebhookSignature(p) ==
    IF p.signature = "" THEN Returns(FALSE)
    ELSE IF p.signature = "non-ascii" THEN RaisesTypeError
    ELSE Returns(p.signature = "match")

\* main.should_respond_to_issue.  `x in body` raises TypeError when body is
\* None, and body is tested before title.
ShouldRespondToIssue(p) ==
    IF p.sender_type = "Bot" THEN Returns(FALSE)
    ELSE IF p.body = NullText THEN RaisesTypeError
    ELSE IF Mentions(p.body) \/ Mentions(p.title) THEN Returns(TRUE)
    ELSE Returns(HasKeyword(p.title) \/ HasKeyword(p.body))

\* main.should_respond_to_comment
ShouldRespondToComment(p) ==
    IF p.sender_type = "Bot" THEN Returns(FALSE) ELSE Returns(Mentions(p.body))

\* main.should_respond_to_pr
ShouldRespondToPr(p) ==
    IF p.sender_type = "Bot" THEN Returns(FALSE)
    ELSE IF p.body = NullText THEN RaisesTypeError
    ELSE Returns(Mentions(p.body) \/ Mentions(p.title))

\* main.should_respond_to_review: `... in body if body else False`
ShouldRespondToReview(p) ==
    IF p.sender_type = "Bot" THEN Returns(FALSE)
    ELSE IF p.body \notin {"", NullText} THEN Returns(Mentions(p.body))
    ELSE Returns(FALSE)

\* main.should_respond_to_review_comment
ShouldRespondToReviewComment(p) ==
    IF p.sender_type = "Bot" THEN Returns(FALSE) ELSE Returns(Mentions(p.body))

\* The gating function main.py applies to the payload's event kind.
ShouldRespond(p) ==
    IF p.event = "issues" THEN ShouldRespondToIssue(p)
    ELSE IF p.event = "issue_comment" THEN ShouldRespondToComment(p)
    ELSE IF p.event = "pull_request" THEN ShouldRespondToPr(p)
    ELSE IF p.event = "pull_request_review" THEN ShouldRespondToReview(p)
    ELSE ShouldRespondToReviewComment(p)

\* The ConversationManager handler of each event kind.
Handler(p) ==
    IF p.event = "issues" THEN "handle_issue_event"
    ELSE IF p.event = "issue_comment" THEN "handle_comment_event"
    ELSE IF p.event = "pull_request" THEN "handle_pr_event"
    ELSE IF p.event = "pull_request_review" THEN "handle_review_event"
    ELSE "handle_review_comment_event"

Handlers ==
    {"handle_issue_event", "handle_comment_event", "handle_pr_event",
     "handle_review_event", "handle_review_comment_event"}

\* The actions for which the handle_*_event function of main.py consults the
\* gating function.
GatedActions(event) ==
    IF event = "issues" THEN {"opened", "edited"}
    ELSE IF event = "pull_request" THEN {"opened", "edited", "synchronize"}
    ELSE IF event = "pull_request_review" THEN {"submitted"}
    ELSE {"created"}

\* The handlers reached without consulting the gating function.
Dispatch_NoGating(p) ==
    IF p.event = "issues" /\ p.action = "closed" THEN "archive_conversation"
    ELSE IF p.action \notin GatedActions(p.event) THEN "" ELSE Handler(p)

\* main.github_webhook and the handle_*_event functions of main.py, for the
\* five conversation event kinds: the ConversationManager method the
\* payload reaches (a handler, or archive_conversation for a closed issue),
\* "" when none, "TypeError" when the gating function raises.
Dispatch(p) ==
    IF p.event = "issues" /\ p.action = "closed" THEN "archive_conversation"
    ELSE IF p.action \notin GatedActions(p.event) THEN ""
    ELSE IF ShouldRespond(p).raised THEN "TypeError"
    ELSE IF ShouldRespond(p).value THEN Handler(p)
    ELSE ""

\* Every comment taken for a comment on an issue.
ContextType_CommentOnIssue(p) ==
    IF p.event \in {"issues", "issue_comment"} THEN "issue" ELSE "pull_request"

\* The context_type each handler passes to _get_or_create_conversation.
ContextType(p) ==
    IF p.event = "issues" THEN "issue"
    ELSE IF p.event = "issue_comment"
        THEN (IF p.is_pr THEN "pull_request" ELSE "issue")
    ELSE "pull_request"

\* len(x) > 50 in ConversationManager._is_significant_edit
SignificantEditThreshold == 50

\* ConversationManager._is_significant_edit: the new length is read from
\* changes['body']['to'], '' when that key is absent.
IsSignificantEdit(p) ==
    IF p.changes.title THEN TRUE
    ELSE IF p.changes.body
        THEN LET to_len == IF p.changes.has_to THEN p.changes.to_len ELSE 0
                 d == p.changes.from_len - to_len
             IN  (IF d < 0 THEN -d ELSE d) > SignificantEditThreshold
    ELSE FALSE

\* The _process_* method of the payload: whether it appends a ledger entry,
\* the entry, and whether it goes on to _generate_ai_response.
\* _get_pr_files returns [], so _process_pr_sync never generates.
ProcessPlan(p) ==
    IF p.action = "edited"
        THEN [append |-> p.changes.title \/ p.changes.body, role |-> "user",
              tag |-> IF p.event = "issues" THEN "issue_edited" ELSE "pr_edited",
              generate |-> (p.changes.title \/ p.changes.body)
                            /\ IsSignificantEdit(p)]
    ELSE IF p.action = "synchronize"
        THEN [append |-> TRUE, role |-> "system", tag |-> "pr_synchronize",
              generate |-> FALSE]
    ELSE IF p.event = "issues"
        THEN [append |-> TRUE, role |-> "user", tag |-> "issue_opened",
              generate |-> TRUE]
    ELSE IF p.event = "issue_comment"
        THEN [append |-> TRUE, role |-> "user", tag |-> "comment_created",
              generate |-> TRUE]
    ELSE IF p.event = "pull_request"
        THEN [append |-> TRUE, role |-> "user", tag |-> "pr_opened",
              generate |-> TRUE]
    ELSE IF p.event = "pull_request_review"
        THEN [append |-> TRUE, role |-> "user", tag |-> "review_submitted",
              generate |-> p.review_state \in {"changes_requested", "commented"}
                            /\ p.body \notin {"", NullText}]
    ELSE [append |-> TRUE, role |-> "user", tag |-> "review_comment_created",
          generate |-> TRUE]

NoResponse == [raised |-> FALSE, content |-> <<>>, actions |-> <<>>]

\* One effect of an event: a ledger append (role set, arg the ledger position)
\* or a repository call (arg the issue number or the action's position in the
\* batch, ok whether the call succeeded).
Effect(op, role, arg, ok) == [op |-> op, role |-> role, arg |-> arg, ok |-> ok]

\* The repository call each known action type makes
\* (_execute_create_file_action and its three siblings).
ExternalCall(type) ==
    IF type \in {"create_file", "update_file"} THEN "create_or_update_file"
    ELSE IF type = "create_pr" THEN "create_pull_request"
    ELSE "create_branch"

(***************************************************************************)
(* The repository snapshot (_build_repository_context).                    *)
(***************************************************************************)
\* ConversationManager.max_file_size
max_file_size == 100000

\* key_files of _build_repository_context
key_files ==
    {"README.md", "package.json", "requirements.txt", "Cargo.toml", "go.mod"}

\* An entry of the repository's root as GitHub serves it: its name, its
\* type ('file' or 'dir'), whether fetching its content succeeds and the
\* length of that content.
TreeEntry(name, type, fetch_ok, len) ==
    [name |-> name, type |-> type, fetch_ok |-> fetch_ok, len |-> len]

\* The repository during one event: whether an installation token can be
\* had, whether the root can be listed, and the root's entries, directories
\* first.
Repo(token_ok, list_ok, tree) ==
    [token_ok |-> token_ok, list_ok |-> list_ok, tree |-> tree]

NoRepo == Repo(FALSE, FALSE, <<>>)

\* The repo_context dict: the repository metadata of the payload, the
\* listing, and the well-known files taken into the snapshot.
RepoContext(raised, repository, structure, files) ==
    [raised |-> raised, repository |-> repository, structure |-> structure,
     files |-> files]

NoRepoContext == RepoContext(FALSE, FALSE, <<>>, <<>>)

\* GitHubApp.get_repository_files: any exception, that of
\* get_installation_token included, is logged and gives [].
GetRepositoryFiles(r) == IF r.token_ok /\ r.list_ok THEN r.tree ELSE <<>>

\* GitHubApp.get_file_content: the content, None on any exception.
GetFileContent(r, entry) ==
    IF r.token_ok /\ entry.fetch_ok
    THEN [none |-> FALSE, len |-> entry.len]
    ELSE [none |-> TRUE, len |-> 0]

\* `if content and len(content) < self.max_file_size`
TakesFile(content) ==
    ~content.none /\ content.len > 0 /\ content.len < max_file_size

\* _build_repository_context failing when the root cannot be listed.
BuildRepositoryContext_FailsWithListing(r) ==
    IF ~(r.token_ok /\ r.list_ok) THEN RepoContext(TRUE, FALSE, <<>>, <<>>)
    ELSE RepoContext(FALSE, TRUE, r.tree,
            SelectSeq(r.tree, LAMBDA e :
                /\ e.name \in key_files /\ e.type = "file"
                /\ TakesFile(GetFileContent(r, e))))

\* ConversationManager._build_repository_context: the metadata, the
\* listing, and every well-known file of the listing whose content was
\* fetched and is short enough.
BuildRepositoryContext(r) ==
    LET files == GetRepositoryFiles(r)
    IN  RepoContext(FALSE, TRUE, files,
            SelectSeq(files, LAMBDA e :
                /\ e.name \in key_files /\ e.type = "file"
                /\ TakesFile(GetFileContent(r, e))))

(***************************************************************************)
(* The installation token cache (GitHubApp.token_cache).                   *)
(***************************************************************************)
InstallationIds == {1, 2}

\* A cache entry {'token': ..., 'expires_at': ...}; token 0: no entry.
\* as_text: expires_at is an ISO-8601 string (a datetime object otherwise).
Entry(token, expires_at, as_text) ==
    [token |-> token, expires_at |-> expires_at, as_text |-> as_text]

NoEntry == Entry(0, 0, FALSE)

\* A call in progress: its position, its installation id, the token_data
\* and token locals, and what it returns.
TokenCall(at, id, data, token, ret) ==
    [pc |-> at, id |-> id, data |-> data, token |-> token, ret |-> ret]

NoResult == [raised |-> FALSE, token |-> 0, cached |-> FALSE, at |-> 0]

NoCall == TokenCall("idle", 0, NoEntry, NoEntry, NoResult)

\* timedelta(minutes=5) in get_installation_token; a tick is a minute.
TokenMargin == 5

\* What a finished call hands back: it raised, or it returned a token, from
\* the cache or freshly minted; at: the clock when the cache was consulted.
TokenResult(raised, token, cached, at) ==
    [raised |-> raised, token |-> token, cached |-> cached, at |-> at]

\* expires_at > now + 5 minutes
IsFresh(entry, now) == entry.expires_at > now + TokenMargin

\* Teardown dropping every entry of the cache.
DeleteEntry_ClearsAll(cache, id) == [i \in DOMAIN cache |-> NoEntry]

\* del self.token_cache[cache_key]
DeleteEntry(cache, id) == [cache EXCEPT ![id] = NoEntry]

\* get_installation_token, `if cache_key in self.token_cache`.
TokenLookup(w, id) ==
    /\ tok[w].pc = "idle"
    /\ tok' = [tok EXCEPT ![w] =
            TokenCall(IF token_cache[id] # NoEntry THEN "read" ELSE "mint",
                      id, NoEntry, NoEntry, NoResult)]
    /\ UNCHANGED <<storeVars, workerVars, parseVars, clock, token_cache, minted>>

\* get_installation_token, lines 80-83: the entry is read (KeyError when a
\* teardown removed it meanwhile), its expires_at is parsed with
\* .replace('Z', '+00:00') and fromisoformat (TypeError when it is a
\* datetime object, which has no such replace), and a fresh token is
\* returned.
TokenRead(w) ==
    /\ tok[w].pc = "read"
    /\ LET entry == token_cache[tok[w].id]
       IN  tok' = [tok EXCEPT ![w] =
            IF entry = NoEntry
            THEN [@ EXCEPT !.pc = "ret", !.ret = TokenResult(TRUE, 0, FALSE, clock)]
            ELSE IF ~entry.as_text
            THEN [@ EXCEPT !.pc = "ret", !.data = entry,
                           !.ret = TokenResult(TRUE, 0, FALSE, clock)]
            ELSE IF IsFresh(entry, clock)
            THEN [@ EXCEPT !.pc = "ret", !.data = entry,
                           !.ret = TokenResult(FALSE, entry.token, TRUE, clock)]
            ELSE [@ EXCEPT !.pc = "mint", !.data = entry,
                           !.ret = TokenResult(FALSE, 0, FALSE, clock)]]
    /\ UNCHANGED <<storeVars, workerVars, parseVars, clock, token_cache, minted>>

\* get_installation_token, line 87: integration.get_access_token.  ok: the
\* call succeeded (its exception is logged and raised again); life: the
\* lifetime of the token; as_text: the form of its expires_at, which is the
\* same for every token of a run.
TokenMint(w, ok, life, as_text) ==
    /\ tok[w].pc = "mint"
    /\ Cardinality(minted) < MaxMints
    /\ \A m \in minted : m.entry.as_text = as_text
    /\ IF ok
       THEN LET token == Entry(Cardinality(minted) + 1, clock + life, as_text)
            IN  /\ minted' = minted \cup {[id |-> tok[w].id, entry |-> token]}
                /\ tok' = [tok EXCEPT ![w].pc = "write", ![w].token = token]
       ELSE /\ tok' = [tok EXCEPT ![w].pc = "ret",
                                  ![w].ret = TokenResult(TRUE, 0, FALSE, @.at)]
            /\ UNCHANGED minted
    /\ UNCHANGED <<storeVars, workerVars, parseVars, clock, token_cache>>

\* get_installation_token, lines 90-95: the entry is written, the token
\* returned.
TokenStore(w) ==
    /\ tok[w].pc = "write"
    /\ token_cache' = [token_cache EXCEPT ![tok[w].id] = tok[w].token]
    /\ tok' = [tok EXCEPT ![w].pc = "ret",
                          ![w].ret = TokenResult(FALSE, tok[w].token.token, FALSE, @.at)]
    /\ UNCHANGED <<storeVars, workerVars, parseVars, clock, minted>>

\* The call is over: its locals are gone.
TokenReturn(w) ==
    /\ tok[w].pc \in {"ret", "t_ret"}
    /\ tok' = [tok EXCEPT ![w] = NoCall]
    /\ UNCHANGED <<storeVars, workerVars, parseVars, clock, token_cache, minted>>

\* cleanup_installation, `if cache_key in self.token_cache`.
CleanupLookup(w, id) ==
    /\ tok[w].pc = "idle"
    /\ tok' = [tok EXCEPT ![w] =
            TokenCall(IF token_cache[id] # NoEntry THEN "t_del" ELSE "t_ret",
                      id, NoEntry, NoEntry, NoResult)]
    /\ UNCHANGED <<storeVars, workerVars, parseVars, clock, token_cache, minted>>

\* cleanup_installation, `del self.token_cache[cache_key]`: KeyError when
\* another teardown removed the entry meanwhile.
CleanupDelete(w) ==
    /\ tok[w].pc = "t_del"
    /\ IF token_cache[tok[w].id] = NoEntry
       THEN /\ tok' = [tok EXCEPT ![w].pc = "t_ret",
                                  ![w].ret = TokenResult(TRUE, 0, FALSE, @.at)]
            /\ UNCHANGED token_cache
       ELSE /\ token_cache' = DeleteEntry(token_cache, tok[w].id)
            /\ tok' = [tok EXCEPT ![w].pc = "t_ret"]
    /\ UNCHANGED <<storeVars, workerVars, parseVars, clock, minted>>

\* Time passes.
Tick ==
    /\ clock < MaxClock
    /\ clock' = clock + 1
    /\ UNCHANGED <<storeVars, workerVars, parseVars, tokenVars>>

(***************************************************************************)
(* The workers.  pc follows the call chain of one webhook request:         *)
(*   idle -> get_conv -> create_conv -> process -> generate -> store       *)
(*        -> post -> execute -> done -> idle                               *)
(* At done the response has been decided and the handler's locals are      *)
(* still in place; Return ends the request and drops them.                 *)
(***************************************************************************)
Done(w, r) ==
    /\ pc' = [pc EXCEPT ![w] = "done"]
    /\ resp' = [resp EXCEPT ![w] = r]

\* The request never ending: the response is not sent and the thread stays
\* where it is.
Return_Hangs(w) ==
    /\ pc[w] = "done"
    /\ UNCHANGED vars

\* main.github_webhook returns its response; the request's locals are gone.
Return(w) ==
    /\ pc[w] = "done"
    /\ pc' = [pc EXCEPT ![w] = "idle"]
    /\ payload' = [payload EXCEPT ![w] = NoPayload]
    /\ conv_id' = [conv_id EXCEPT ![w] = None]
    /\ ai_response' = [ai_response EXCEPT ![w] = NoResponse]
    /\ idx' = [idx EXCEPT ![w] = 0]
    /\ trace' = [trace EXCEPT ![w] = <<>>]
    /\ history' = [history EXCEPT ![w] = <<>>]
    /\ repo' = [repo EXCEPT ![w] = NoRepo]
    /\ repo_context' = [repo_context EXCEPT ![w] = NoRepoContext]
    /\ calls' = [calls EXCEPT ![w] = <<>>]
    /\ UNCHANGED <<storeVars, otherVars, resp, served>>

\* main.github_webhook up to the ConversationManager handler: signature
\* check, dispatch on the event type, gating.  events: the deliveries that
\* may arrive; limit: how many the run receives.
Webhook(w, events, limit) ==
    /\ pc[w] = "idle"
    /\ served < limit
    /\ served' = served + 1
    /\ \E p \in events :
        /\ payload' = [payload EXCEPT ![w] = p]
        /\ IF VerifyWebhookSignature(p).raised
           THEN Done(w, "500")
           ELSE IF ~VerifyWebhookSignature(p).value
           THEN Done(w, "401")
           ELSE IF Dispatch(p) = "TypeError"
           THEN Done(w, "500")
           ELSE IF Dispatch(p) = ""
           THEN Done(w, "processed")
           ELSE IF Dispatch(p) = "archive_conversation"
           THEN /\ pc' = [pc EXCEPT ![w] = "archive"]
                /\ resp' = [resp EXCEPT ![w] = ""]
           ELSE /\ pc' = [pc EXCEPT ![w] = "get_conv"]
                /\ resp' = [resp EXCEPT ![w] = ""]
    /\ UNCHANGED <<conv_id, ai_response, idx, trace>>
    /\ UNCHANGED <<storeVars, otherVars, history, ctxVars, calls>>

\* ConversationManager.archive_conversation: the newest conversation of the
\* repository and number, if any, becomes 'archived'; an exception is
\* logged there.
ArchiveConversation(w) ==
    /\ pc[w] = "archive"
    /\ LET found == GetConversationByContext(conversations,
                        payload[w].repo_full_name, payload[w].number)
       IN  IF found = {}
           THEN UNCHANGED conversations
           ELSE \E conversation \in found :
                    conversations' = UpdateConversationStatus(conversations,
                                        conversation.id, "archived", clock)
    /\ Done(w, "processed")
    /\ UNCHANGED <<messages, agent_actions, otherVars, history, ctxVars, calls, payload,
                   conv_id, ai_response, idx, trace, served>>

\* _get_or_create_conversation making the conversation it finds active
\* again.
GetConversation_Reactivates(w) ==
    /\ pc[w] = "get_conv"
    /\ LET p == payload[w]
           found == GetConversationDb(conversations, p.installation_id,
                        p.repo_full_name, ContextType(p), p.number)
       IN  IF found # {}
           THEN /\ conv_id' = [conv_id EXCEPT ![w] = (CHOOSE r \in found : TRUE).id]
                /\ conversations' = UpdateConversationStatus(conversations,
                        (CHOOSE r \in found : TRUE).id, "active", clock)
                /\ pc' = [pc EXCEPT ![w] = "process"]
           ELSE /\ pc' = [pc EXCEPT ![w] = "create_conv"]
                /\ UNCHANGED <<conv_id, conversations>>
    /\ UNCHANGED <<messages, agent_actions, otherVars, history, ctxVars, calls, payload, ai_response, idx, trace,
                   resp, served>>

\* ConversationManager._get_or_create_conversation, first half:
\* db.get_conversation and the early return.
GetConversation(w) ==
    /\ pc[w] = "get_conv"
    /\ LET p == payload[w]
           found == GetConversationDb(conversations, p.installation_id,
                        p.repo_full_name, ContextType(p), p.number)
       IN  IF found # {}
           THEN /\ conv_id' = [conv_id EXCEPT ![w] = (CHOOSE r \in found : TRUE).id]
                /\ pc' = [pc EXCEPT ![w] = "process"]
           ELSE /\ pc' = [pc EXCEPT ![w] = "create_conv"]
                /\ UNCHANGED conv_id
    /\ UNCHANGED <<storeVars, otherVars, history, ctxVars, calls, payload, ai_response, idx, trace,
                   resp, served>>

\* ConversationManager._get_or_create_conversation, second half:
\* db.create_conversation.  Its IntegrityError is caught nowhere before
\* main.github_webhook, which answers 500.
CreateConversation(w) ==
    /\ pc[w] = "create_conv"
    /\ LET p == payload[w]
           made == CreateConversationDb(conversations, p.installation_id,
                        p.repo_full_name, ContextType(p), p.number, "active",
                        clock)
       IN  IF made.raised
           THEN /\ Done(w, "500")
                /\ UNCHANGED <<conversations, conv_id>>
           ELSE /\ conversations' = made.rows
                /\ conv_id' = [conv_id EXCEPT ![w] = made.id]
                /\ pc' = [pc EXCEPT ![w] = "process"]
                /\ UNCHANGED resp
    /\ UNCHANGED <<messages, agent_actions, otherVars, history, ctxVars, calls, payload, ai_response,
                   idx, trace, served>>

\* The handler's _process_* method up to its call of _generate_ai_response:
\* the triggering message is appended to the ledger.
ProcessEvent(w) ==
    /\ pc[w] = "process"
    /\ LET plan == ProcessPlan(payload[w])
       IN  /\ IF plan.append
              THEN /\ messages' = AddMessageRows(messages,
                        MessageRow(conv_id[w], plan.role, <<Txt>>, "sender",
                                   plan.tag), clock)
                   /\ conversations' = Touch(conversations, conv_id[w], clock)
                   /\ trace' = [trace EXCEPT ![w] =
                        Append(@, Effect("add_message", plan.role,
                                         Len(messages) + 1, TRUE))]
              ELSE UNCHANGED <<messages, conversations, trace>>
           /\ IF plan.generate
              THEN pc' = [pc EXCEPT ![w] = "generate"] /\ UNCHANGED resp
              ELSE Done(w, "processed")
    /\ UNCHANGED <<agent_actions, otherVars, history, ctxVars, calls, payload, conv_id, ai_response,
                   idx, served>>

\* AIClient.available_models
available_models == {"openai", "openai-fast", "qwen-coder", "llama", "mistral"}

\* The fallback tried after a non-success response whatever model was
\* asked.
FallbackModel_Always(selected_model) ==
    IF selected_model \in available_models THEN "openai" ELSE ""

\* _generate_pollinations_response, "Try with a different model if the
\* first one fails": the model of the retry after a non-success response of
\* selected_model, "" when there is none.
FallbackModel(selected_model) ==
    IF selected_model # "openai" /\ selected_model \in available_models
    THEN "openai"
    ELSE ""

\* AIClient._generate_pollinations_response(messages, model) with
\* default_model configured.  outcomes: what the backend does with each
\* request to come, "200", "non-200" (another status), "timeout" or "error"
\* (requests.post raises); the environment answers no more requests than it
\* holds outcomes.  The result: the models requested, in order, and whether
\* the call raised instead of returning the response text.
RECURSIVE GeneratePollinationsResponse(_, _, _)
GeneratePollinationsResponse(default_model, model, outcomes) ==
    LET selected_model == IF model = "" THEN default_model ELSE model
    IN  IF outcomes = <<>>
        THEN [requests |-> <<>>, raised |-> TRUE]
        ELSE IF Head(outcomes) = "200"
        THEN [requests |-> <<selected_model>>, raised |-> FALSE]
        ELSE IF Head(outcomes) = "non-200" /\ FallbackModel(selected_model) # ""
        THEN LET retry == GeneratePollinationsResponse(default_model,
                                FallbackModel(selected_model), Tail(outcomes))
             IN  [requests |-> <<selected_model>> \o retry.requests,
                  raised |-> retry.raised]
        ELSE [requests |-> <<selected_model>>, raised |-> TRUE]

\* generate_response answering an empty reply, not None, when the backend
\* call fails.
GenerateResponse_EmptyOnFailure(reply) ==
    IF ~reply.ok THEN [none |-> FALSE, value |-> NoResponse]
    ELSE LET r == ParseAiResponse(reply.text)
         IN  IF r.raised THEN [none |-> TRUE, value |-> NoResponse]
             ELSE [none |-> FALSE, value |-> r]

\* AIClient.generate_response: the backend call (reply.ok, reply.text) and
\* the parse; any exception, also one of the parser, gives None.
GenerateResponse(reply) ==
    IF ~reply.ok THEN [none |-> TRUE, value |-> NoResponse]
    ELSE LET r == ParseAiResponse(reply.text)
         IN  IF r.raised THEN [none |-> TRUE, value |-> NoResponse]
             ELSE [none |-> FALSE, value |-> r]

\* ConversationManager._generate_ai_response up to "if ai_response:": the
\* conversation is looked up, its recent messages are read as context, the
\* repository snapshot is built, the backend is called.  replies: what the
\* model backend may answer; repos: what GitHub may serve.  The token
\* request of the snapshot and the backend call are effects of the event,
\* ok when a token was had and when the backend returned a text.
CallModel(w, replies, repos) ==
    /\ pc[w] = "generate"
    /\ \E reply \in replies, r \in repos :
        IF GetConversationById(conversations, conv_id[w]) = {}
        THEN /\ Done(w, "processed")
             /\ UNCHANGED <<ai_response, trace, history, ctxVars>>
        ELSE LET got == GenerateResponse(reply)
                 built == BuildRepositoryContext(r)
                 asked == Effect("get_installation_token", "", 0, r.token_ok)
             IN  /\ history' = [history EXCEPT ![w] =
                        GetConversationMessages(messages, conv_id[w],
                                                max_context_messages)]
                 /\ repo' = [repo EXCEPT ![w] = r]
                 /\ repo_context' = [repo_context EXCEPT ![w] = built]
                 /\ IF built.raised
                    \* caught by the except clause of _generate_ai_response
                    THEN /\ trace' = [trace EXCEPT ![w] = Append(@, asked)]
                         /\ Done(w, "processed")
                         /\ UNCHANGED ai_response
                    ELSE /\ trace' = [trace EXCEPT ![w] =
                                Append(Append(@, asked),
                                       Effect("generate_response", "", 0, reply.ok))]
                         /\ IF got.none
                            THEN Done(w, "processed") /\ UNCHANGED ai_response
                            ELSE /\ ai_response' = [ai_response EXCEPT ![w] = got.value]
                                 /\ pc' = [pc EXCEPT ![w] = "store"]
                                 /\ UNCHANGED resp
    /\ UNCHANGED <<storeVars, otherVars, payload, conv_id, idx, served, calls>>

\* A writing call of GitHubApp: the operation, the installation and the
\* repository it is made on, the issue or pull request number and the text
\* (of a comment).
GithubCall(op, installation_id, repo_full_name, number, content) ==
    [op |-> op, installation_id |-> installation_id,
     repo_full_name |-> repo_full_name, number |-> number, content |-> content]

\* The arguments _post_github_response passes to create_issue_comment.
CommentCall(p, response) ==
    GithubCall("create_issue_comment", p.installation_id, p.repo_full_name,
               p.number, response.content)

\* The call made on the repository and installation the action object names.
ExecuteActionCall_AsActionSays(p, action) ==
    IF action.repository # ""
    THEN GithubCall(ExternalCall(action.type), action.installation_id,
                    action.repository, 0, <<>>)
    ELSE GithubCall(ExternalCall(action.type), p.installation_id,
                    p.repo_full_name, 0, <<>>)

\* The arguments an _execute_*_action method passes to GitHubApp: the
\* installation id and the repository name are read from the payload.
ExecuteActionCall(p, action) ==
    GithubCall(ExternalCall(action.type), p.installation_id, p.repo_full_name,
               0, <<>>)

\* The reply posted although the assistant message could not be stored.
StoreAIResponse_PostsAnyway(w, ok) ==
    /\ pc[w] = "store"
    /\ IF ok
       THEN /\ messages' = AddMessageRows(messages,
                    MessageRow(conv_id[w], "assistant", ai_response[w].content,
                               "coder-bot", "ai_response"), clock)
            /\ conversations' = Touch(conversations, conv_id[w], clock)
            /\ trace' = [trace EXCEPT ![w] =
                    Append(@, Effect("add_message", "assistant", Len(messages) + 1, TRUE))]
       ELSE /\ trace' = [trace EXCEPT ![w] =
                    Append(@, Effect("add_message", "assistant", 0, FALSE))]
            /\ UNCHANGED <<conversations, messages>>
    /\ pc' = [pc EXCEPT ![w] = "post"]
    /\ UNCHANGED <<agent_actions, otherVars, history, ctxVars, calls, payload, conv_id, ai_response,
                   idx, resp, served>>

\* _generate_ai_response: "Store AI response".  ok: whether add_message
\* returned; when it raises (the INSERT fails) the row is not written and
\* the except clause of _generate_ai_response ends the event.
StoreAIResponse(w, ok) ==
    /\ pc[w] = "store"
    /\ IF ok
       THEN /\ messages' = AddMessageRows(messages,
                    MessageRow(conv_id[w], "assistant", ai_response[w].content,
                               "coder-bot", "ai_response"), clock)
            /\ conversations' = Touch(conversations, conv_id[w], clock)
            /\ trace' = [trace EXCEPT ![w] =
                    Append(@, Effect("add_message", "assistant", Len(messages) + 1, TRUE))]
            /\ pc' = [pc EXCEPT ![w] = "post"]
            /\ UNCHANGED resp
       ELSE /\ trace' = [trace EXCEPT ![w] =
                    Append(@, Effect("add_message", "assistant", 0, FALSE))]
            /\ Done(w, "processed")
            /\ UNCHANGED <<conversations, messages>>
    /\ UNCHANGED <<agent_actions, otherVars, history, ctxVars, calls, payload, conv_id, ai_response,
                   idx, served>>

\* The program point after position i of the batch: the loop of
\* _execute_ai_actions goes on, or the request ends.
AfterAction(w, i) ==
    IF i < Len(ai_response[w].actions)
    THEN /\ pc' = [pc EXCEPT ![w] = "execute"]
         /\ idx' = [idx EXCEPT ![w] = i + 1]
         /\ UNCHANGED resp
    ELSE /\ Done(w, "processed")
         /\ idx' = [idx EXCEPT ![w] = i]

\* The reply never posted: the executor is entered straight after the
\* assistant message has been stored.
PostGithubResponse_NotPosted(w, ok) ==
    /\ pc[w] = "post"
    /\ AfterAction(w, 0)
    /\ UNCHANGED <<storeVars, otherVars, history, ctxVars, calls, payload, conv_id, ai_response, served,
                   trace>>

\* The reply posted only when it carries no action.
PostGithubResponse_OnlyWithoutActions(w, ok) ==
    /\ pc[w] = "post"
    /\ trace' = [trace EXCEPT ![w] =
            IF ai_response[w].actions = <<>>
            THEN Append(@, Effect("create_issue_comment", "", payload[w].number, ok))
            ELSE @]
    /\ calls' = [calls EXCEPT ![w] =
            IF ai_response[w].actions = <<>>
            THEN Append(@, CommentCall(payload[w], ai_response[w]))
            ELSE @]
    /\ AfterAction(w, 0)
    /\ UNCHANGED <<storeVars, otherVars, history, ctxVars, payload, conv_id, ai_response, served>>

\* ConversationManager._post_github_response, then the entry of
\* _execute_ai_actions.  ok: whether GitHubApp.create_issue_comment succeeded.
PostGithubResponse(w, ok) ==
    /\ pc[w] = "post"
    /\ trace' = [trace EXCEPT ![w] =
            Append(@, Effect("create_issue_comment", "", payload[w].number, ok))]
    /\ calls' = [calls EXCEPT ![w] = Append(@, CommentCall(payload[w], ai_response[w]))]
    /\ AfterAction(w, 0)
    /\ UNCHANGED <<storeVars, otherVars, history, ctxVars, payload, conv_id, ai_response, served>>

\* The executor giving up the batch at an action whose type tag it does not
\* know.
ExecuteAction_StopsOnUnknown(w, ok) ==
    /\ pc[w] = "execute"
    /\ LET action == ai_response[w].actions[idx[w]]
       IN  IF ~action.obj \/ action.type \notin KnownTypes
           THEN Done(w, "processed") /\ UNCHANGED <<idx, trace, calls>>
           ELSE /\ trace' = [trace EXCEPT ![w] =
                    Append(@, Effect(ExternalCall(action.type), "", idx[w], ok))]
                /\ calls' = [calls EXCEPT ![w] =
                    Append(@, ExecuteActionCall(payload[w], action))]
                /\ AfterAction(w, idx[w])
    /\ UNCHANGED <<storeVars, otherVars, history, ctxVars, payload, conv_id, ai_response, served>>

\* One iteration of the loop of ConversationManager._execute_ai_actions.
\* ok: whether the repository call of the action succeeded.
ExecuteAction(w, ok) ==
    /\ pc[w] = "execute"
    /\ LET action == ai_response[w].actions[idx[w]]
       IN  IF ~action.obj
           \* action.get raises AttributeError; the except clause evaluates
           \* action.get('type') again, and that exception leaves the loop.
           THEN Done(w, "processed") /\ UNCHANGED <<idx, trace, calls>>
           ELSE IF action.type \in KnownTypes
           THEN /\ trace' = [trace EXCEPT ![w] =
                    Append(@, Effect(ExternalCall(action.type), "", idx[w], ok))]
                /\ calls' = [calls EXCEPT ![w] =
                    Append(@, ExecuteActionCall(payload[w], action))]
                /\ AfterAction(w, idx[w])
           ELSE /\ AfterAction(w, idx[w])
                /\ UNCHANGED <<trace, calls>>
    /\ UNCHANGED <<storeVars, otherVars, history, ctxVars, payload, conv_id, ai_response, served>>

(***************************************************************************)
(* The store's operations, called one after the other by a maintenance     *)
(* caller: what DatabaseManager offers besides what the handlers use.       *)
(***************************************************************************)
\* DatabaseManager.create_conversation for an issue of installation
\* installation_id.
StoreCreateConversation(installation_id, number) ==
    /\ LET made == CreateConversationDb(conversations, installation_id, "o/r",
                        "issue", number, "active", clock)
       IN  /\ ~made.raised
           /\ conversations' = made.rows
    /\ UNCHANGED <<messages, agent_actions, workerVars, otherVars>>

\* DatabaseManager.add_message on an existing conversation.  limit: how
\* many rows the run appends.
StoreAddMessage(id, role, limit) ==
    /\ GetConversationById(conversations, id) # {}
    /\ served < limit
    /\ served' = served + 1
    /\ messages' = AddMessageRows(messages,
            MessageRow(id, role, <<Txt>>, "sender", "comment_created"), clock)
    /\ conversations' = Touch(conversations, id, clock)
    /\ UNCHANGED <<agent_actions, otherVars, pc, payload, conv_id, ai_response,
                   idx, trace, resp, history, ctxVars, calls>>

\* DatabaseManager.update_conversation_status
StoreUpdateConversationStatus(id, status) ==
    /\ GetConversationById(conversations, id) # {}
    /\ conversations' = UpdateConversationStatus(conversations, id, status, clock)
    /\ UNCHANGED <<messages, agent_actions, workerVars, otherVars>>

\* DatabaseManager.cleanup_old_data(days_old), the clock counting days.
CleanupOldData(days_old) ==
    /\ LET gone == Expired(conversations, clock - days_old)
       IN  /\ messages' = DeleteMessagesOf(messages, {r.id : r \in gone})
           /\ conversations' = conversations \ gone
           /\ agent_actions' = DeleteCompletedActions(agent_actions,
                                                      clock - days_old)
    /\ UNCHANGED <<workerVars, otherVars>>

\* DatabaseManager.delete_installation
DeleteInstallation(installation_id) ==
    /\ LET gone == {r \in conversations : r.installation_id = installation_id}
       IN  /\ messages' = DeleteMessagesOf(messages, {r.id : r \in gone})
           /\ conversations' = conversations \ gone
    /\ UNCHANGED <<agent_actions, workerVars, otherVars>>

(***************************************************************************)
(* Inputs.                                                                 *)
(***************************************************************************)
SeqsUpTo(S, n) == UNION {[1..k -> S] : k \in 0..n}

\* Action batches of up to MaxActions actions.
Batches == SeqsUpTo(ActionValues, MaxActions)

Reply(ok, text) == [ok |-> ok, text |-> text]

\* What the model backend may answer in the executor model: a failure, prose
\* alone, prose followed by a fenced block holding a batch, and a block
\* that does not decode.
ExecReplies ==
    {Reply(FALSE, <<>>), Reply(TRUE, <<Txt>>),
     Reply(TRUE, <<Txt, Ws, Fence, Json, Txt, Fence>>)}
        \cup {Reply(TRUE, <<Txt, Ws, Fence, Json, Ws, Val(JObject(b)), Ws, Fence>>) :
                b \in Batches}

\* ... and in the concurrent model.
ConcReplies ==
    {Reply(FALSE, <<>>), Reply(TRUE, <<Txt>>),
     Reply(TRUE, <<Txt, Fence, Json, Val(JObject(<<Action(TRUE, "create_file")>>)), Fence>>)}

\* What GitHub serves in the concurrent model: a repository with an empty
\* root.
ConcRepos == {Repo(TRUE, TRUE, <<>>)}

Comment(number, is_pr, sender_type, body, signed) ==
    Payload("issue_comment", "created", 1, "o/r", number, is_pr, sender_type,
            "", body, "", signed)

IssueOpened(number, body) ==
    Payload("issues", "opened", 1, "o/r", number, FALSE, "User", "plain", body,
            "", TRUE)

PrOpened(number, body) ==
    Payload("pull_request", "opened", 1, "o/r", number, TRUE, "User", "plain",
            body, "", TRUE)

Review(number, state) ==
    Payload("pull_request_review", "submitted", 1, "o/r", number, TRUE, "User",
            "", "@bot", state, TRUE)

ReviewComment(number) ==
    Payload("pull_request_review_comment", "created", 1, "o/r", number, TRUE,
            "User", "", "@bot", "", TRUE)

\* Webhooks of the concurrent model: events on issue 1 and pull request 1,
\* accepted ones, one with a bad signature, and one of each kind that the
\* gating policy rejects.
ConcEvents ==
    {Comment(1, FALSE, "User", "@bot", TRUE), IssueOpened(1, "kw"),
     Comment(1, TRUE, "User", "@bot", TRUE),
     Comment(1, FALSE, "Bot", "@bot", TRUE),
     Comment(1, FALSE, "User", "@bot", FALSE),
     WithSignature(Comment(1, FALSE, "User", "@bot", TRUE), ""),
     WithSignature(Comment(1, FALSE, "User", "@bot", TRUE), "non-ascii"),
     IssueOpened(1, "plain"), PrOpened(1, "kw"),
     [Review(1, "commented") EXCEPT !.body = NullText],
     [ReviewComment(1) EXCEPT !.body = "kw"]}

\* Webhooks of the gating model: every event kind, from a user and from a
\* bot, with every title and body; edits; new commits; a delivery with a
\* bad signature.
Senders == {"User", "Bot"}
TitleTexts == {"plain", "kw", "KW", "@bot", "@bot kw"}
CommentTexts == TitleTexts \cup {""}
BodyTexts == CommentTexts \cup {NullText}

\* An 'edited' delivery of an issue or pull request p.
WithEdit(p, changes, body_len) ==
    [p EXCEPT !.action = "edited", !.changes = changes, !.body_len = body_len]

\* The edits: of the title; of the body, as GitHub reports them (changes.body
\* holds 'from' only) and with a 'to' key; of neither (labels, base).
\* Each is a pair <<changes, length of the new body>>.
Edits ==
    {<<Changes(TRUE, FALSE, 0, FALSE, 0), 100>>,
     <<Changes(TRUE, TRUE, 100, FALSE, 0), 145>>,
     <<Changes(FALSE, FALSE, 0, FALSE, 0), 100>>}
        \cup {<<Changes(FALSE, TRUE, 100, FALSE, 0), n>> : n \in {145, 150, 160}}
        \cup {<<Changes(FALSE, TRUE, 100, TRUE, n), n>> : n \in {145, 150, 151, 160}}
        \cup {<<Changes(FALSE, TRUE, 40, FALSE, 0), n>> : n \in {45, 200}}

GateEvents ==
    {Payload("issues", "opened", 1, "o/r", 1, FALSE, s, t, b, "", TRUE) :
        s \in Senders, t \in TitleTexts, b \in BodyTexts}
    \cup {Payload("pull_request", "opened", 1, "o/r", 1, TRUE, s, t, b, "", TRUE) :
        s \in Senders, t \in TitleTexts, b \in BodyTexts}
    \cup {Comment(1, pr, s, b, TRUE) :
        pr \in BOOLEAN, s \in Senders, b \in CommentTexts}
    \cup {Payload("pull_request_review", "submitted", 1, "o/r", 1, TRUE, s, "",
                    b, st, TRUE) :
        s \in Senders, b \in BodyTexts, st \in {"approved", "commented"}}
    \cup {Payload("pull_request_review_comment", "created", 1, "o/r", 1, TRUE,
                    s, "", b, "", TRUE) :
        s \in Senders, b \in CommentTexts}
    \cup {WithEdit(p, e[1], e[2]) :
        p \in {IssueOpened(1, "@bot"), PrOpened(1, "@bot")}, e \in Edits}
    \cup {[PrOpened(1, "@bot") EXCEPT !.action = "synchronize"],
          Comment(1, FALSE, "User", "@bot", FALSE)}

\* Webhooks of the executor model.
ExecEvents ==
    {Comment(1, FALSE, "User", "@bot", TRUE), Review(2, "approved"),
     Comment(1, FALSE, "User", "plain", TRUE)}

\* Raw replies of the parser harness.
Alphabet ==
    {Ws, Txt, Fence, Json,
     Val(JObject(<<Action(TRUE, "create_file"), Action(TRUE, "create_pr")>>)),
     Val(JEmptyObject), Val(JNumber)}

Texts == SeqsUpTo(Alphabet, MaxLen)

Unparsed == [done |-> FALSE, result |-> NoResponse]

\* The backend harness at rest.
NoBackendCall ==
    [default_model |-> "", outcomes |-> <<>>, done |-> FALSE,
     requests |-> <<>>, raised |-> FALSE]

(***************************************************************************)
(* Specifications.                                                         *)
(***************************************************************************)
InitStore ==
    /\ conversations = {}
    /\ messages = <<>>
    /\ agent_actions = <<>>

InitWorkers ==
    /\ pc = [w \in Workers |-> "idle"]
    /\ payload = [w \in Workers |-> NoPayload]
    /\ conv_id = [w \in Workers |-> None]
    /\ ai_response = [w \in Workers |-> NoResponse]
    /\ idx = [w \in Workers |-> 0]
    /\ trace = [w \in Workers |-> <<>>]
    /\ resp = [w \in Workers |-> ""]
    /\ served = 0
    /\ history = [w \in Workers |-> <<>>]
    /\ repo = [w \in Workers |-> NoRepo]
    /\ repo_context = [w \in Workers |-> NoRepoContext]
    /\ calls = [w \in Workers |-> <<>>]

InitToken ==
    /\ token_cache = [i \in InstallationIds |-> NoEntry]
    /\ tok = [w \in Workers |-> NoCall]
    /\ minted = {}

Init ==
    /\ InitStore
    /\ InitWorkers
    /\ InitToken
    /\ clock = 0
    /\ raw = <<>>
    /\ parsed = Unparsed
    /\ backend = NoBackendCall

\* The concurrent model: every worker handles webhooks, interleaved at the
\* store's statements and at the repository and backend calls.
Next ==
    \E w \in Workers :
        \/ Webhook(w, ConcEvents, MaxEvents)
        \/ GetConversation(w)
        \/ CreateConversation(w)
        \/ ProcessEvent(w)
        \/ CallModel(w, ConcReplies, ConcRepos)
        \/ \E ok \in BOOLEAN : StoreAIResponse(w, ok)
        \/ \E ok \in BOOLEAN : PostGithubResponse(w, ok)
        \/ \E ok \in BOOLEAN : ExecuteAction(w, ok)
        \/ Return(w)

Spec == Init /\ [][Next]_vars

\* The executor model: one worker, any reply the backend may give.
NextExec ==
    \/ Webhook(ExecWorker, ExecEvents, MaxExecEvents)
    \/ GetConversation(ExecWorker)
    \/ CreateConversation(ExecWorker)
    \/ ProcessEvent(ExecWorker)
    \/ CallModel(ExecWorker, ExecReplies, ConcRepos)
    \/ \E ok \in BOOLEAN : StoreAIResponse(ExecWorker, ok)
    \/ \E ok \in BOOLEAN : PostGithubResponse(ExecWorker, ok)
    \/ \E ok \in BOOLEAN : ExecuteAction(ExecWorker, ok)
    \/ Return(ExecWorker)

SpecExec == Init /\ [][NextExec]_vars

\* The gating model: one worker, any delivery GitHub may send.
NextGate ==
    \/ Webhook(ExecWorker, GateEvents, MaxExecEvents)
    \/ GetConversation(ExecWorker)
    \/ CreateConversation(ExecWorker)
    \/ ProcessEvent(ExecWorker)
    \/ CallModel(ExecWorker, ConcReplies, ConcRepos)
    \/ \E ok \in BOOLEAN : StoreAIResponse(ExecWorker, ok)
    \/ \E ok \in BOOLEAN : PostGithubResponse(ExecWorker, ok)
    \/ \E ok \in BOOLEAN : ExecuteAction(ExecWorker, ok)
    \/ Return(ExecWorker)

SpecGate == Init /\ [][NextGate]_vars

\* A conversation that has been going on: k ledger rows of conversation id,
\* user comments and the replies to them in turn, all of one second.
Backlog(id, k) ==
    [i \in 1..k |->
        IF i % 2 = 1
        THEN MessageRow(id, "user", <<Txt>>, "sender", "comment_created")
        ELSE MessageRow(id, "assistant", <<Txt>>, "coder-bot", "ai_response")]

\* The store of the history model at its start: the conversation of issue 1
\* with k rows, and, when other holds, the conversation of pull request 1
\* with one row that was appended first.
InitHistoryStore(k, other) ==
    /\ conversations =
            {ConversationRow(1, 1, "o/r", "issue", 1, "active", 0)}
            \cup (IF other
                  THEN {ConversationRow(2, 1, "o/r", "pull_request", 1, "active", 0)}
                  ELSE {})
    /\ messages = (IF other THEN Backlog(2, 1) ELSE <<>>) \o Backlog(1, k)
    /\ agent_actions = <<>>

InitHistory ==
    /\ \E k \in 0..MaxBacklog, other \in BOOLEAN : InitHistoryStore(k, other)
    /\ InitWorkers
    /\ InitToken
    /\ clock = 0
    /\ raw = <<>>
    /\ parsed = Unparsed
    /\ backend = NoBackendCall

\* Webhooks of the history model: a comment on issue 1, one on pull request 1.
HistoryEvents ==
    {Comment(1, FALSE, "User", "@bot", TRUE), Comment(1, TRUE, "User", "@bot", TRUE)}

\* The history model: one worker handles comments on conversations that
\* have been going on, while time passes.
NextHistory ==
    \/ Tick
    \/ Webhook(ExecWorker, HistoryEvents, MaxExecEvents)
    \/ GetConversation(ExecWorker)
    \/ CreateConversation(ExecWorker)
    \/ ProcessEvent(ExecWorker)
    \/ CallModel(ExecWorker, ConcReplies, ConcRepos)
    \/ \E ok \in BOOLEAN : StoreAIResponse(ExecWorker, ok)
    \/ \E ok \in BOOLEAN : PostGithubResponse(ExecWorker, ok)
    \/ \E ok \in BOOLEAN : ExecuteAction(ExecWorker, ok)
    \/ Return(ExecWorker)

SpecHistory == InitHistory /\ [][NextHistory]_vars

\* Webhooks of the lifecycle model: an issue (number 1) and a pull request
\* (number 2) are opened and closed; one delivery is refused
\* for its signature, one makes the gating policy raise.
IssueClosed(number) ==
    Payload("issues", "closed", 1, "o/r", number, FALSE, "User", "plain",
            "plain", "", TRUE)

PrClosed(number) ==
    Payload("pull_request", "closed", 1, "o/r", number, TRUE, "User", "plain",
            "plain", "", TRUE)

LifeEvents ==
    {IssueOpened(1, "kw"), IssueClosed(1), PrOpened(2, "@bot"), PrClosed(2),
     Comment(1, FALSE, "User", "@bot", FALSE), IssueOpened(1, NullText)}

\* What the backend returns in the lifecycle model: a failure, or a reply
\* with one action.
LifeReplies ==
    {Reply(FALSE, <<>>),
     Reply(TRUE, <<Txt, Fence, Json, Val(JObject(<<Action(TRUE, "create_file")>>)), Fence>>)}

\* The lifecycle model: one worker handles one delivery after the other
\* while time passes.
NextLife ==
    \/ Tick
    \/ Webhook(ExecWorker, LifeEvents, MaxLifeEvents)
    \/ ArchiveConversation(ExecWorker)
    \/ GetConversation(ExecWorker)
    \/ CreateConversation(ExecWorker)
    \/ ProcessEvent(ExecWorker)
    \/ CallModel(ExecWorker, LifeReplies, ConcRepos)
    \/ \E ok \in BOOLEAN : StoreAIResponse(ExecWorker, ok)
    \/ \E ok \in BOOLEAN : PostGithubResponse(ExecWorker, ok)
    \/ \E ok \in BOOLEAN : ExecuteAction(ExecWorker, ok)
    \/ Return(ExecWorker)

SpecLife == Init /\ [][NextLife]_vars

\* The steps of a request in progress.  The server thread that took the
\* request runs on: every call it makes returns or raises (the backend call
\* and the repository calls time out, SQLite gives up on a lock).
StepLife ==
    \/ ArchiveConversation(ExecWorker)
    \/ GetConversation(ExecWorker)
    \/ CreateConversation(ExecWorker)
    \/ ProcessEvent(ExecWorker)
    \/ CallModel(ExecWorker, LifeReplies, ConcRepos)
    \/ \E ok \in BOOLEAN : StoreAIResponse(ExecWorker, ok)
    \/ \E ok \in BOOLEAN : PostGithubResponse(ExecWorker, ok)
    \/ \E ok \in BOOLEAN : ExecuteAction(ExecWorker, ok)
    \/ Return(ExecWorker)

\* The lifecycle model with a request in progress always going on.
SpecLive == Init /\ [][NextLife]_vars /\ WF_vars(StepLife)

\* The store of the archive model at its start: the conversation of issue
\* 1 of installation 1, active or archived, with a comment and its reply;
\* and, with second, a conversation of the same repository and number that
\* was created at second at: the one of another installation of the
\* repository, or the one of another context type.
InitArchiveStore(status, second, at) ==
    /\ conversations =
            {ConversationRow(1, 1, "o/r", "issue", 1, status, 0)}
            \cup (IF second = "installation"
                  THEN {ConversationRow(2, 2, "o/r", "issue", 1, "active", at)}
                  ELSE IF second = "context_type"
                  THEN {ConversationRow(2, 1, "o/r", "pull_request", 1, "active", at)}
                  ELSE {})
    /\ messages = Backlog(1, 2) \o (IF second = "" THEN <<>> ELSE Backlog(2, 1))
    /\ agent_actions = <<>>

InitArchive ==
    /\ \E status \in {"active", "archived"},
          second \in {"", "installation", "context_type"}, at \in {0, 1} :
            InitArchiveStore(status, second, at)
    /\ InitWorkers
    /\ InitToken
    /\ clock = 1
    /\ raw = <<>>
    /\ parsed = Unparsed
    /\ backend = NoBackendCall

\* Webhooks of the archive model: issue 1 is closed, reopened, commented on;
\* a first comment on pull request 2 arrives.
IssueReopened(number) ==
    Payload("issues", "reopened", 1, "o/r", number, FALSE, "User", "plain",
            "plain", "", TRUE)

ArchiveEvents ==
    {IssueClosed(1), IssueReopened(1), Comment(1, FALSE, "User", "@bot", TRUE),
     Comment(2, TRUE, "User", "@bot", TRUE)}

\* The archive model: one worker handles deliveries about an issue whose
\* conversation exists, while time passes.
NextArchive ==
    \/ Tick
    \/ Webhook(ExecWorker, ArchiveEvents, MaxLifeEvents)
    \/ ArchiveConversation(ExecWorker)
    \/ GetConversation(ExecWorker)
    \/ CreateConversation(ExecWorker)
    \/ ProcessEvent(ExecWorker)
    \/ CallModel(ExecWorker, LifeReplies, ConcRepos)
    \/ \E ok \in BOOLEAN : StoreAIResponse(ExecWorker, ok)
    \/ \E ok \in BOOLEAN : PostGithubResponse(ExecWorker, ok)
    \/ \E ok \in BOOLEAN : ExecuteAction(ExecWorker, ok)
    \/ Return(ExecWorker)

SpecArchive == InitArchive /\ [][NextArchive]_vars

\* Webhooks of the resolution model: the four kinds of event about pull
\* request 1, a comment on it that another installation delivers, and a
\* comment on the plain issue of the same number.
ResolveEvents ==
    {PrOpened(1, "@bot"), Comment(1, TRUE, "User", "@bot", TRUE),
     Review(1, "approved"), ReviewComment(1),
     [Comment(1, TRUE, "User", "@bot", TRUE) EXCEPT !.installation_id = 2],
     Comment(1, FALSE, "User", "@bot", TRUE)}

\* The resolution model: one worker handles one delivery after the other.
NextResolve ==
    \/ Webhook(ExecWorker, ResolveEvents, MaxLifeEvents)
    \/ GetConversation(ExecWorker)
    \/ CreateConversation(ExecWorker)
    \/ ProcessEvent(ExecWorker)
    \/ CallModel(ExecWorker, LifeReplies, ConcRepos)
    \/ \E ok \in BOOLEAN : StoreAIResponse(ExecWorker, ok)
    \/ \E ok \in BOOLEAN : PostGithubResponse(ExecWorker, ok)
    \/ \E ok \in BOOLEAN : ExecuteAction(ExecWorker, ok)
    \/ Return(ExecWorker)

SpecResolve == Init /\ [][NextResolve]_vars

\* What GitHub serves in the snapshot model: a root with a directory, two
\* well-known files and another file, of several lengths; the listing or a
\* fetch may fail, and so may the token request.
FileLengths == {0, 99999, 100000, 100001}

ContextTrees ==
    {<<TreeEntry("src", "dir", TRUE, 0),
       TreeEntry("main.py", "file", TRUE, 10),
       TreeEntry("package.json", "file", ok2, n2),
       TreeEntry("README.md", "file", ok1, n1)>> :
        ok1 \in BOOLEAN, ok2 \in BOOLEAN, n1 \in FileLengths, n2 \in {10}}
      \cup {<<TreeEntry("README.md", "dir", TRUE, 0)>>, <<>>}

ContextRepos ==
    {Repo(token_ok, list_ok, tree) :
        token_ok \in BOOLEAN, list_ok \in BOOLEAN, tree \in ContextTrees}

ContextEvents ==
    {Comment(1, FALSE, "User", "@bot", TRUE), IssueOpened(1, "kw")}

\* The snapshot model: one worker, any repository GitHub may serve.
NextContext ==
    \/ Webhook(ExecWorker, ContextEvents, MaxExecEvents)
    \/ GetConversation(ExecWorker)
    \/ CreateConversation(ExecWorker)
    \/ ProcessEvent(ExecWorker)
    \/ CallModel(ExecWorker, ConcReplies, ContextRepos)
    \/ \E ok \in BOOLEAN : StoreAIResponse(ExecWorker, ok)
    \/ \E ok \in BOOLEAN : PostGithubResponse(ExecWorker, ok)
    \/ \E ok \in BOOLEAN : ExecuteAction(ExecWorker, ok)
    \/ Return(ExecWorker)

SpecContext == Init /\ [][NextContext]_vars

\* The store model: the store's operations in any order while time passes.
Statuses == {"active", "archived"}
RetentionDays == {0, 1}

\* The issues of the store model, as <<installation id, number>>.
StoreIssues == {<<1, 1>>, <<1, 2>>}

NextStore ==
    \/ Tick
    \/ \E k \in StoreIssues : StoreCreateConversation(k[1], k[2])
    \/ \E r \in conversations : StoreAddMessage(r.id, "user", MaxRows)
    \/ \E r \in conversations, status \in Statuses :
            StoreUpdateConversationStatus(r.id, status)
    \/ \E days_old \in RetentionDays : CleanupOldData(days_old)
    \/ \E i \in InstallationIds : DeleteInstallation(i)

SpecStore == Init /\ [][NextStore]_vars

\* The lifetimes of the tokens the integration mints, in ticks.
TokenLifetimes == {TokenMargin + 1}

\* The token cache model: the workers call get_installation_token and
\* cleanup_installation, interleaved at the cache's reads and writes, while
\* time passes.
NextToken ==
    \/ Tick
    \/ \E w \in Workers :
        \/ \E id \in InstallationIds : TokenLookup(w, id)
        \/ TokenRead(w)
        \/ \E ok \in BOOLEAN, life \in TokenLifetimes, as_text \in BOOLEAN :
                TokenMint(w, ok, life, as_text)
        \/ TokenStore(w)
        \/ TokenReturn(w)
        \/ \E id \in InstallationIds : CleanupLookup(w, id)
        \/ CleanupDelete(w)

SpecToken == Init /\ [][NextToken]_vars

\* The parser harness: _parse_ai_response applied to every raw reply.
InitParse ==
    /\ InitStore
    /\ InitWorkers
    /\ InitToken
    /\ clock = 0
    /\ raw \in Texts
    /\ parsed = Unparsed
    /\ backend = NoBackendCall

Parse ==
    /\ ~parsed.done
    /\ parsed' = [done |-> TRUE, result |-> ParseAiResponse(raw)]
    /\ UNCHANGED <<storeVars, workerVars, clock, tokenVars, raw, backend>>

NextParse == Parse

SpecParse == InitParse /\ [][NextParse]_vars

\* The backend harness: _generate_pollinations_response called as
\* generate_response calls it, for every configured model and every way the
\* backend may answer the requests.
ConfiguredModels == available_models \cup {"gpt-x"}

BackendOutcomes == {"200", "non-200", "timeout", "error"}

InitBackend ==
    /\ InitStore
    /\ InitWorkers
    /\ InitToken
    /\ clock = 0
    /\ raw = <<>>
    /\ parsed = Unparsed
    /\ \E m \in ConfiguredModels, o \in [1..MaxRequests -> BackendOutcomes] :
        backend = [default_model |-> m, outcomes |-> o, done |-> FALSE,
                   requests |-> <<>>, raised |-> FALSE]

CallBackend ==
    /\ ~backend.done
    /\ LET r == GeneratePollinationsResponse(backend.default_model, "",
                                             backend.outcomes)
       IN  backend' = [backend EXCEPT !.done = TRUE, !.requests = r.requests,
                                      !.raised = r.raised]
    /\ UNCHANGED <<storeVars, workerVars, clock, tokenVars, raw, parsed>>

NextBackend == CallBackend

SpecBackend == InitBackend /\ [][NextBackend]_vars

(***************************************************************************)
(* Properties.                                                             *)
(***************************************************************************)
\* The composite keys of two events are the same.
SameKey(p, q) ==
    /\ p.installation_id = q.installation_id
    /\ p.repo_full_name = q.repo_full_name
    /\ ContextType(p) = ContextType(q)
    /\ p.number = q.number

\* Worker w is handling an accepted event and has left
\* _get_or_create_conversation, by a return or by an exception.
Resolved(w) ==
    /\ payload[w] # NoPayload
    /\ payload[w].signed
    /\ Dispatch(payload[w]) \in Handlers
    /\ pc[w] \in {"process", "generate", "store", "post", "execute", "done"}

\* C1: in every reachable state, under any interleaving of the workers, the
\* store holds at most one conversation for each composite key
\* (installation_id, repo_full_name, context_type, context_number).
C1_OneConversationPerKey ==
    \A r1, r2 \in conversations : Key(r1) = Key(r2) => r1 = r2

\* C1, its case: two workers raced to create the conversation of one key;
\* one row is in the store and the other INSERT was refused.
C1_Witness ==
    \E w1, w2 \in Workers :
        /\ w1 # w2
        /\ Resolved(w1) /\ Resolved(w2)
        /\ SameKey(payload[w1], payload[w2])
        /\ resp[w2] = "500"
        /\ conv_id[w1] # None
        /\ Cardinality(conversations) = 1

\* C2: when two workers concurrently resolve the same never-seen composite
\* key, one creates the conversation and the other falls back to reading the
\* row, so both calls return the same conversation id and neither fails.
C2_ConcurrentResolveSameId ==
    \A w1, w2 \in Workers :
        (w1 # w2 /\ Resolved(w1) /\ Resolved(w2)
            /\ SameKey(payload[w1], payload[w2]))
        => /\ resp[w1] # "500" /\ resp[w2] # "500"
           /\ conv_id[w1] # None
           /\ conv_id[w1] = conv_id[w2]

\* The repository calls of the action executor.
IsActionCall(e) ==
    e.op \in {"create_or_update_file", "create_pull_request", "create_branch"}

IsComment(e) == e.op = "create_issue_comment"

IsAssistantAppend(e) == e.op = "add_message" /\ e.role = "assistant" /\ e.ok

IsUserAppend(e) == e.op = "add_message" /\ e.role = "user" /\ e.ok

\* The action calls of worker w's current event, in the order made.
ActionCalls(w) == SelectSeq(trace[w], IsActionCall)

\* The batch positions attempted, in the order attempted.
Attempted(w) == [i \in 1..Len(ActionCalls(w)) |-> ActionCalls(w)[i].arg]

\* The outcomes of the action calls, in the order made.
Outcomes(w) == [i \in 1..Len(ActionCalls(w)) |-> ActionCalls(w)[i].ok]

IsKnown(action) == action.obj /\ action.type \in KnownTypes

\* The positions of a batch that hold an action of a known type, ascending.
KnownPositions(actions) ==
    SelectSeq([i \in 1..Len(actions) |-> i], LAMBDA i : IsKnown(actions[i]))

\* The event of worker w has handed its batch to the executor.
Posted(w) == \E i \in 1..Len(trace[w]) : IsComment(trace[w][i])

\* The agent_actions rows of a conversation, in insertion order.
ActionRecords(id) ==
    SelectSeq(agent_actions, LAMBDA r : r.conversation_id = id)

\* C3: for every batch, each action of a known type is attempted exactly
\* once, in list order, whether or not an earlier action of the batch failed
\* or raised; a failed action is not retried within the event.
C3_EachKnownActionOnceInOrder ==
    \A w \in Workers :
        (pc[w] = "done" /\ Posted(w))
        => /\ Attempted(w) = KnownPositions(ai_response[w].actions)
           /\ \A i \in 1..Len(ActionCalls(w)) :
                ActionCalls(w)[i].op =
                    ExternalCall(ai_response[w].actions[Attempted(w)[i]].type)

\* C4: after an event with a batch of 3 actions whose 2nd repository call
\* fails, the conversation has 3 AgentAction records: the 1st and 3rd
\* 'completed', the 2nd 'failed' with a non-empty error_message.
C4_ThreeActionRecords ==
    \A w \in Workers :
        (/\ pc[w] = "done"
         /\ Len(ai_response[w].actions) = 3
         /\ \A i \in 1..3 : IsKnown(ai_response[w].actions[i])
         /\ Outcomes(w) = <<TRUE, FALSE, TRUE>>)
        => LET recs == ActionRecords(conv_id[w])
           IN  /\ Len(recs) = 3
               /\ recs[1].status = "completed"
               /\ recs[2].status = "failed"
               /\ recs[2].error_message # ""
               /\ recs[3].status = "completed"

\* C5: every action the executor attempts has an AgentAction record that is
\* 'pending' before the repository call is made and that turns, once the
\* call has returned, 'completed' or 'failed'.
C5_PendingRecordBeforeCall ==
    \A w \in Workers :
        /\ (pc[w] = "execute" /\ IsKnown(ai_response[w].actions[idx[w]]))
            => \E k \in 1..Len(agent_actions) :
                /\ agent_actions[k].conversation_id = conv_id[w]
                /\ agent_actions[k].action_data = ai_response[w].actions[idx[w]]
                /\ agent_actions[k].status = "pending"
        /\ \A i \in 1..Len(ActionCalls(w)) :
                /\ Len(ActionRecords(conv_id[w])) >= i
                /\ ActionRecords(conv_id[w])[i].status =
                        (IF Outcomes(w)[i] THEN "completed" ELSE "failed")

\* Positions of worker w's trace.
T(w) == 1..Len(trace[w])

\* C6, as stated: assistant message persisted, then all actions executed,
\* then the narrative posted; the reply is never posted before the actions
\* of the event have been executed.
C6_ActionsBeforeReply ==
    \A w \in Workers : \A i, j \in T(w) :
        /\ (IsAssistantAppend(trace[w][i]) /\ IsActionCall(trace[w][j])) => i < j
        /\ (IsActionCall(trace[w][i]) /\ IsComment(trace[w][j])) => i < j

\* C6, amended: for every accepted event that yields a model reply the order
\* is: assistant message persisted, then the narrative posted to the origin
\* thread, then the actions executed; no action of the event is executed
\* before its reply has been posted, and no reply is posted before the
\* assistant message has been persisted.
C6_PersistThenReplyThenActions ==
    \A w \in Workers : \A j \in T(w) :
        /\ IsComment(trace[w][j])
            => /\ \E i \in T(w) : i < j /\ IsAssistantAppend(trace[w][i])
               /\ \A i \in T(w) : IsAssistantAppend(trace[w][i]) => i < j
        /\ IsActionCall(trace[w][j])
            => /\ \E i \in T(w) : i < j /\ IsComment(trace[w][i])
               /\ \A i \in T(w) : IsComment(trace[w][i]) => i < j

\* C6, its case: an event that persisted the reply, posted it and executed
\* actions has completed.
C6_Witness ==
    \E w \in Workers :
        /\ pc[w] = "done"
        /\ \E i \in T(w) : IsAssistantAppend(trace[w][i])
        /\ Posted(w)
        /\ Len(ActionCalls(w)) >= 2

\* The backend call of worker w's event failed.
BackendFailed(w) ==
    \E i \in T(w) : trace[w][i].op = "generate_response" /\ ~trace[w][i].ok

\* C7: when the model backend call fails, the conversation still holds the
\* triggering user message, no assistant message is appended, no action is
\* executed and no comment is posted for that event.
C7_BackendFailureKeepsOnlyUserMessage ==
    \A w \in Workers :
        (pc[w] = "done" /\ BackendFailed(w))
        => /\ \E i \in T(w) :
                /\ IsUserAppend(trace[w][i])
                /\ trace[w][i].arg = Len(messages)
                /\ messages[trace[w][i].arg].conversation_id = conv_id[w]
                /\ messages[trace[w][i].arg].role = "user"
           /\ \A i \in T(w) :
                /\ ~IsAssistantAppend(trace[w][i])
                /\ ~IsActionCall(trace[w][i])
                /\ ~IsComment(trace[w][i])

\* C7, its case: an event whose backend call failed has completed.
C7_Witness ==
    \E w \in Workers :
        pc[w] = "done" /\ BackendFailed(w) /\ resp[w] = "processed"

\* C8: for every event whose reply was parsed and persisted, the narrative
\* is posted to the origin thread (one create_issue_comment call on the
\* event's issue or pull request number) whether none, some or all of the
\* reply's actions fail.
C8_ReplyPostedWhateverActionsDo ==
    \A w \in Workers :
        (pc[w] = "done" /\ \E i \in T(w) : IsAssistantAppend(trace[w][i]))
        => /\ Cardinality({i \in T(w) : IsComment(trace[w][i])}) = 1
           /\ \A i \in T(w) :
                IsComment(trace[w][i]) => trace[w][i].arg = payload[w].number

\* C8, its case: an event has completed whose batch had a failing and a
\* succeeding action.
C8_Witness ==
    \E w \in Workers :
        /\ pc[w] = "done"
        /\ \E i \in T(w) : IsAssistantAppend(trace[w][i])
        /\ \E i, j \in 1..Len(ActionCalls(w)) : ~Outcomes(w)[i] /\ Outcomes(w)[j]

\* The fence-open marker occurs in the text.
HasFenceOpen(text) ==
    \E i \in 1..(Len(text) - 1) : text[i] = Fence /\ text[i + 1] = Json

\* C9: for every raw reply without the fence-open marker, parse returns the
\* raw text unchanged as narrative and an empty action list.
C9_NoFenceKeepsText ==
    (parsed.done /\ ~HasFenceOpen(raw))
    => /\ ~parsed.result.raised
       /\ parsed.result.content = raw
       /\ parsed.result.actions = <<>>

\* C9, its case: a reply without the marker, with whitespace at its ends and
\* a plain fence in it, has been parsed.
C9_Witness ==
    /\ parsed.done
    /\ ~HasFenceOpen(raw)
    /\ Len(raw) >= 3 /\ raw[1] = Ws /\ raw[Len(raw)] = Ws
    /\ \E i \in 1..Len(raw) : raw[i] = Fence

\* The text has a fenced block with a closing fence and a body that
\* json.loads rejects.
BlockUndecodable(text) ==
    /\ HasFenceOpen(text)
    /\ LET open == Find(text, FenceOpen, 1)
           close == JsonEnd(text, open)
       IN  /\ close > JsonStart(open)
           /\ ~JsonLoads(Strip(SubSeq(text, JsonStart(open), close - 1))).ok

\* C10: for every raw reply whose fenced block body fails to decode, parse
\* returns the original full text, untrimmed and with the block, as
\* narrative, and an empty action list.
C10_MalformedBlockKeepsFullText ==
    (parsed.done /\ BlockUndecodable(raw))
    => /\ ~parsed.result.raised
       /\ parsed.result.content = raw
       /\ parsed.result.actions = <<>>

\* C10, its case: "Hello" + fence-open + "not valid data" + fence-close
\* has been parsed.
C10_Witness ==
    /\ parsed.done
    /\ raw = <<Txt, Fence, Json, Txt, Fence>>
    /\ BlockUndecodable(raw)

\* The first fenced block of the text has a closing fence and a body that
\* decodes to an object with an 'actions' array.
BlockHasActions(text) ==
    /\ HasFenceOpen(text)
    /\ LET open == Find(text, FenceOpen, 1)
           close == JsonEnd(text, open)
       IN  /\ close > JsonStart(open)
           /\ LET data == JsonLoads(Strip(SubSeq(text, JsonStart(open), close - 1)))
              IN  data.ok /\ data.value.t = "object" /\ data.value.has_actions

\* The 'actions' array of the first fenced block.
BlockActions(text) ==
    LET open == Find(text, FenceOpen, 1)
    IN  JsonLoads(Strip(SubSeq(text, JsonStart(open),
                               JsonEnd(text, open) - 1))).value.actions

\* c is s without the whitespace at its two ends.
IsTrimOf(c, s) ==
    /\ c = <<>> \/ (c[1] # Ws /\ c[Len(c)] # Ws)
    /\ \E i \in 0..Len(s) :
        /\ i + Len(c) <= Len(s)
        /\ SubSeq(s, i + 1, i + Len(c)) = c
        /\ \A k \in (1..i) \cup ((i + Len(c) + 1)..Len(s)) : s[k] = Ws

\* C11: for every raw reply with a fence-open marker, a closing fence and a
\* block body that decodes to an object with an 'actions' array, parse
\* returns as narrative the text before the first fence-open marker,
\* trimmed, and as actions that array in the same order.
C11_BlockGivesProseAndActions ==
    (parsed.done /\ BlockHasActions(raw))
    => /\ ~parsed.result.raised
       /\ IsTrimOf(parsed.result.content,
                   SubSeq(raw, 1, Find(raw, FenceOpen, 1) - 1))
       /\ parsed.result.actions = BlockActions(raw)

\* C11, its case: prose with whitespace before a block of two actions has
\* been parsed.
C11_Witness ==
    /\ parsed.done
    /\ BlockHasActions(raw)
    /\ raw[1] = Txt /\ raw[2] = Ws /\ raw[3] = Fence
    /\ Len(parsed.result.actions) = 2
    /\ parsed.result.actions[1] # parsed.result.actions[2]

\* Worker w has a signed delivery in hand, past the gating policy.
Gated(w) == payload[w] # NoPayload /\ payload[w].signed /\ pc[w] # "idle"

\* The event of worker w has reached the model backend.
Generated(w) ==
    \/ pc[w] \in {"generate", "store", "post", "execute"}
    \/ \E i \in 1..Len(trace[w]) : trace[w][i].op = "generate_response"

\* C12: for every event kind, a delivery whose sender type is 'Bot' is
\* refused by the gating policy even when its text mentions the bot or holds
\* a keyword, so it never causes a model invocation.
C12_BotSenderNeverAnswered ==
    \A w \in Workers :
        (Gated(w) /\ payload[w].sender_type = "Bot")
        => /\ ShouldRespond(payload[w]) = Returns(FALSE)
           /\ pc[w] = "done" /\ resp[w] = "processed"
           /\ ~Generated(w)
           /\ trace[w] = <<>>

\* C12, its case: a comment of a bot that mentions the bot and holds a
\* keyword has been handled.
C12_Witness ==
    \E w \in Workers :
        /\ Gated(w)
        /\ payload[w].event = "issue_comment"
        /\ payload[w].sender_type = "Bot"
        /\ payload[w].body = "@bot kw"
        /\ pc[w] = "done"

\* The text field the gating policy of the event kind reads mentions the
\* bot as '@handle'.
MentionedInRelevantField(p) ==
    IF p.event \in {"issues", "pull_request"}
    THEN p.title \in {"@bot", "@bot kw"} \/ p.body \in {"@bot", "@bot kw"}
    ELSE p.body \in {"@bot", "@bot kw"}

\* C13: for every event kind, when the sender is not a bot and the bot's
\* handle is mentioned in the relevant text field (title or body for issues
\* and pull requests, body for the others), the gating policy returns true.
C13_MentionAlwaysAnswered ==
    \A w \in Workers :
        (/\ Gated(w)
         /\ payload[w].sender_type # "Bot"
         /\ payload[w].action \in {"opened", "created", "submitted"}
         /\ MentionedInRelevantField(payload[w]))
        => /\ ShouldRespond(payload[w]) = Returns(TRUE)
           /\ resp[w] # "500"

\* The text holds one of the fixed keywords, in any case.
ContainsKeyword(text) == text \in {"kw", "KW", "@bot kw"}

\* C14: the keyword rule is for issues only: for a sender that is not a bot
\* and a text without mention, the gating policy of an issue returns true
\* exactly when title or body holds a keyword, in any case, and the gating
\* policy of every other event kind returns false.
C14_KeywordRuleIssuesOnly ==
    \A w \in Workers :
        (/\ Gated(w)
         /\ payload[w].sender_type # "Bot"
         /\ payload[w].action \in {"opened", "created", "submitted"}
         /\ ~MentionedInRelevantField(payload[w]))
        => ShouldRespond(payload[w]) =
                Returns(/\ payload[w].event = "issues"
                        /\ \/ ContainsKeyword(payload[w].title)
                           \/ ContainsKeyword(payload[w].body))

\* The edit is significant as the threshold rule has it: the title changed,
\* or the body changed and the old and the new body differ in length by
\* more than 50.
SignificantByLength(p) ==
    \/ p.changes.title
    \/ /\ p.changes.body
       /\ \/ p.changes.from_len - p.body_len > 50
          \/ p.body_len - p.changes.from_len > 50

\* C15: an edit of the title is always significant, and an edit of the body
\* alone is significant exactly when the old and the new body differ in
\* length by more than 50 (100 to 145 and 100 to 150 are not, 100 to 160
\* is): the model is reached for exactly these edits.
C15_SignificantEditThreshold ==
    \A w \in Workers :
        (/\ Gated(w)
         /\ payload[w].action = "edited"
         /\ pc[w] \in {"generate", "store", "post", "execute", "done"})
        => /\ IsSignificantEdit(payload[w]) = SignificantByLength(payload[w])
           /\ Generated(w) = SignificantByLength(payload[w])

\* The gating policy refused the delivery.
Rejected(p) ==
    /\ p # NoPayload
    /\ p.signed
    /\ p.action \in GatedActions(p.event)
    /\ ShouldRespond(p) = Returns(FALSE)

\* C20: an event the gating policy rejects leaves the store as it is: no
\* conversation is created, no message appended, no status or updated_at
\* changed, and no model or repository call made for it.
C20_RejectedEventLeavesStore ==
    /\ [](\A w \in Workers :
            (Rejected(payload[w]) /\ pc[w] # "idle")
            => /\ pc[w] = "done"
               /\ conv_id[w] = None
               /\ trace[w] = <<>>)
    /\ [][\A w \in Workers :
            (pc[w] # pc'[w] /\ Rejected(payload'[w]))
            => UNCHANGED storeVars]_vars

\* C20, its case: a rejected delivery has been handled while the store held
\* a conversation with messages.
C20_Witness ==
    \E w \in Workers :
        /\ Rejected(payload[w])
        /\ pc[w] = "done"
        /\ conversations # {}
        /\ messages # <<>>

\* C16: get_installation_token never returns a cached token whose
\* expires_at is within 5 minutes of now, and it returns a cached token
\* whose expires_at is more than 5 minutes away, without a mint call.
C16_CachedTokenOnlyWhenFresh ==
    \A w \in Workers :
        tok[w].pc = "ret"
        => /\ tok[w].ret.cached
                => tok[w].data.expires_at - tok[w].ret.at > TokenMargin
           /\ (/\ tok[w].data # NoEntry
               /\ tok[w].data.expires_at - tok[w].ret.at > TokenMargin)
                => /\ ~tok[w].ret.raised
                   /\ tok[w].ret.cached
                   /\ tok[w].ret.token = tok[w].data.token
                   /\ tok[w].token = NoEntry

\* C17: under any interleaving of get_installation_token calls and
\* teardowns, every cache entry is the complete pair of one mint for its
\* installation, a write leaves the writer's pair in the cache (the last
\* writer wins), and an entry disappears only by a teardown of its
\* installation.
C17_CacheEntriesWholeAndKept ==
    /\ [](\A id \in InstallationIds :
            token_cache[id] # NoEntry
            => [id |-> id, entry |-> token_cache[id]] \in minted)
    /\ [][\A id \in InstallationIds :
            /\ (token_cache[id] # NoEntry /\ token_cache'[id] = NoEntry)
                => \E w \in Workers :
                    /\ tok[w].pc = "t_del" /\ tok[w].id = id
                    /\ tok'[w].pc = "t_ret"
            /\ (token_cache'[id] # token_cache[id] /\ token_cache'[id] # NoEntry)
                => \E w \in Workers :
                    /\ tok[w].pc = "write" /\ tok[w].id = id
                    /\ tok'[w].pc = "ret"
                    /\ token_cache'[id] = tok[w].token]_vars

\* C17, its case: two workers minted for one installation at the same time
\* and both have written; the cache holds the pair of the second writer,
\* and the other installation still has its entry removed by no one.
C17_Witness ==
    \E w1, w2 \in Workers :
        /\ w1 # w2
        /\ tok[w1].pc = "ret" /\ tok[w2].pc = "ret"
        /\ tok[w1].id = tok[w2].id
        /\ tok[w1].token # NoEntry /\ tok[w2].token # NoEntry
        /\ token_cache[tok[w1].id] = tok[w2].token
        /\ tok[w1].token.token > tok[w2].token.token

\* The ledger positions of a conversation's messages.
LedgerOf(id) == {i \in 1..Len(messages) : messages[i].conversation_id = id}

\* Worker w has just read the context of its conversation: nothing was
\* appended since.
ContextRead(w) == pc[w] = "store"

\* C18: get_conversation_messages(id, n) returns at most n messages of the
\* conversation, oldest first, in the relative order in which they were
\* appended.
C18_ContextOldestFirstAtMostN ==
    \A w \in Workers :
        ContextRead(w)
        => /\ Len(history[w]) <= max_context_messages
           /\ \/ Len(history[w]) = max_context_messages
              \/ Len(history[w]) = Cardinality(LedgerOf(conv_id[w]))
           /\ \A i \in 1..Len(history[w]) : history[w][i] \in LedgerOf(conv_id[w])
           /\ \A i, j \in 1..Len(history[w]) :
                i < j => history[w][i] < history[w][j]

\* C18, its case: the context of a conversation with more messages than the
\* limit, and with another conversation's message in the ledger, was read.
C18_Witness ==
    \E w \in Workers :
        /\ ContextRead(w)
        /\ Cardinality(LedgerOf(conv_id[w])) > max_context_messages
        /\ Len(history[w]) = max_context_messages
        /\ Cardinality(LedgerOf(conv_id[w])) < Len(messages)

\* C19: for a conversation with more than N = 20 messages, the history
\* handed to the model backend is the N most recently appended messages,
\* the message that triggered the event among them.
C19_ContextIsMostRecent ==
    \A w \in Workers :
        (ContextRead(w) /\ Cardinality(LedgerOf(conv_id[w])) > max_context_messages)
        => /\ \A i \in LedgerOf(conv_id[w]) :
                (\E k \in 1..Len(history[w]) : history[w][k] = i)
                <=> Cardinality({j \in LedgerOf(conv_id[w]) : j > i})
                        < max_context_messages
           /\ \E k \in 1..Len(history[w]) :
                \E t \in 1..Len(trace[w]) :
                    IsUserAppend(trace[w][t]) /\ trace[w][t].arg = history[w][k]

\* The signature header of the delivery is missing or is not the HMAC of
\* its body.
BadSignature(p) == p # NoPayload /\ p.signature # "match"

\* C21: a webhook request whose signature is missing or does not match is
\* answered with an error response before any handler runs: no conversation
\* is created or modified, no message is appended, and no model or
\* repository call is made.
C21_BadSignatureRejected ==
    /\ [](\A w \in Workers :
            (BadSignature(payload[w]) /\ pc[w] # "idle")
            => /\ pc[w] = "done"
               /\ resp[w] = (IF payload[w].signature = "non-ascii"
                             THEN "500" ELSE "401")
               /\ conv_id[w] = None
               /\ trace[w] = <<>>)
    /\ [][\A w \in Workers :
            (pc[w] # pc'[w] /\ BadSignature(payload'[w]))
            => UNCHANGED storeVars]_vars

\* C21, its case: a delivery without signature header has been answered 401
\* while the store held the conversation it is about, with messages.
C21_Witness ==
    \E w \in Workers :
        /\ payload[w] # NoPayload
        /\ payload[w].signature = ""
        /\ pc[w] = "done" /\ resp[w] = "401"
        /\ \E r \in conversations : r.context_number = payload[w].number
        /\ messages # <<>>

\* The event of worker w asked for an installation token and got none.
TokenFailed(w) ==
    \E i \in 1..Len(trace[w]) :
        trace[w][i].op = "get_installation_token" /\ ~trace[w][i].ok

\* C22: when minting the installation token fails while an accepted event is
\* processed, the request is rejected before any conversation mutation: no
\* conversation is created and no message is appended for that event.
C22_TokenFailureRejectsBeforeMutation ==
    \A w \in Workers :
        (pc[w] = "done" /\ TokenFailed(w))
        => /\ resp[w] \in {"401", "500"}
           /\ \A i \in 1..Len(trace[w]) : trace[w][i].op # "add_message"
           /\ conversations = {}

\* The snapshot of worker w's event has been built and the worker has gone
\* on.
SnapshotBuilt(w) ==
    /\ pc[w] \in {"store", "post", "execute", "done"}
    /\ \E i \in 1..Len(trace[w]) : trace[w][i].op = "get_installation_token"

\* The members of a sequence.
Range(seq) == {seq[i] : i \in 1..Len(seq)}

\* C27: any error while listing the repository tree or fetching a
\* well-known file yields an empty or partial snapshot and never aborts the
\* event: the model backend is still invoked, with the repository metadata
\* and whatever part of the snapshot was gathered.
C27_SnapshotErrorsNeverAbort ==
    \A w \in Workers :
        SnapshotBuilt(w)
        => LET listed == repo[w].token_ok /\ repo[w].list_ok
               ctx == repo_context[w]
           IN  /\ \E i \in 1..Len(trace[w]) : trace[w][i].op = "generate_response"
               /\ ~ctx.raised
               /\ ctx.repository
               /\ ctx.structure = (IF listed THEN repo[w].tree ELSE <<>>)
               /\ Range(ctx.files) \subseteq Range(ctx.structure)
               /\ \A e \in Range(ctx.files) : e.fetch_ok
               /\ \A e \in Range(ctx.structure) :
                    (/\ e.name \in key_files /\ e.type = "file" /\ e.fetch_ok
                     /\ e.len > 0 /\ e.len < max_file_size)
                    => e \in Range(ctx.files)

\* C27, its case: the listing worked, the fetch of one well-known file
\* failed and that of another succeeded; the backend was called with the
\* partial snapshot and the event has completed.
C27_Witness ==
    \E w \in Workers :
        /\ SnapshotBuilt(w)
        /\ pc[w] = "done"
        /\ Len(repo_context[w].structure) = 4
        /\ Len(repo_context[w].files) = 1
        /\ \E e \in Range(repo[w].tree) :
            e.name = "README.md" /\ e.type = "file" /\ ~e.fetch_ok

\* C28: a well-known file present in the tree is left out of the snapshot
\* exactly when its content is longer than 100,000; a file of at most
\* 100,000, exactly 100,000 included, is taken.
C28_FileExcludedOnlyAboveCeiling ==
    \A w \in Workers :
        SnapshotBuilt(w)
        => \A e \in Range(repo_context[w].structure) :
            (e.name \in key_files /\ e.type = "file" /\ e.fetch_ok)
            => (e \in Range(repo_context[w].files) <=> e.len <= 100000)

\* Worker w has handled the delivery that says the issue or pull request
\* closed.
ClosedHandled(w) ==
    /\ payload[w] # NoPayload
    /\ payload[w].signature = "match"
    /\ payload[w].event \in {"issues", "pull_request"}
    /\ payload[w].action = "closed"
    /\ pc[w] = "done"

\* The conversations of the issue or pull request of delivery p.
ConversationsOf(p) ==
    {r \in conversations : /\ r.repo_full_name = p.repo_full_name
                           /\ r.context_number = p.number}

\* C23: when the issue or pull request of an existing active conversation
\* closes (a 'closed' issues event or a 'closed' pull_request event), that
\* conversation's status becomes 'archived'.
C23_ClosedArchives ==
    \A w \in Workers :
        ClosedHandled(w)
        => \A r \in ConversationsOf(payload[w]) : r.status = "archived"

\* The number of rows conversation id has in ledger msgs.
RowsOf(msgs, id) ==
    Cardinality({i \in 1..Len(msgs) : msgs[i].conversation_id = id})

\* The conversations that have fewer rows in ledger after than in ledger
\* before.
LostRows(before, after) ==
    {id \in {before[i].conversation_id : i \in 1..Len(before)} :
        RowsOf(after, id) < RowsOf(before, id)}

\* Ledger after is ledger before with one row appended, or with all rows of
\* some conversations removed and every other row as it was, in its place.
AppendedOrPruned(before, after) ==
    \/ /\ Len(after) = Len(before) + 1
       /\ SubSeq(after, 1, Len(before)) = before
    \/ after = DeleteMessagesOf(before, LostRows(before, after))

\* C24, as stated: the message ledger is append-only across every sequence
\* of add_message, update_conversation_status, cleanup_old_data and
\* delete_installation: an existing message is never modified, and a message
\* is deleted only by the retention cleanup of an archived conversation.
C24_DeletedOnlyByRetention ==
    [][/\ AppendedOrPruned(messages, messages')
       /\ \A id \in LostRows(messages, messages') :
            \E r \in conversations :
                /\ r.id = id
                /\ r.status = "archived"
                /\ r \notin conversations']_vars

\* C24, amended: across every sequence of add_message,
\* update_conversation_status, cleanup_old_data and delete_installation, an
\* existing message is never modified, and a message is deleted only
\* together with its conversation: by the retention cleanup, when the
\* conversation is archived and was last updated before the cutoff, or by
\* delete_installation, which removes every conversation of the
\* installation, archived or not.
C24_DeletedOnlyWithConversation ==
    [][/\ AppendedOrPruned(messages, messages')
       /\ \A id \in LostRows(messages, messages') :
            \E r \in conversations :
                /\ r.id = id
                /\ r \notin conversations'
                /\ \/ r.status = "archived" /\ r.updated_at < clock
                   \/ \A q \in conversations' :
                        q.installation_id # r.installation_id]_vars

\* C24, its case: messages were appended to two conversations of one
\* installation and the first conversation is gone with its message, while
\* the message of the other, which is active, is still there.
C24_Witness ==
    /\ served = 2
    /\ Len(messages) = 1
    /\ \E r \in conversations :
        /\ r.id = 2 /\ r.installation_id = 1 /\ r.status = "active"
        /\ messages[1].conversation_id = r.id
        /\ \A q \in conversations : q.id # 1

\* The ledger positions worker w's current event has appended.
AppendedBy(w) ==
    {trace[w][i].arg : i \in {k \in 1..Len(trace[w]) :
                                trace[w][k].op = "add_message" /\ trace[w][k].ok}}

\* Ledger position i comes before ledger position j when the conversation
\* is read (get_conversation_messages without a limit that cuts).
ReadBefore(id, i, j) ==
    LET read == GetConversationMessages(messages, id, Len(messages))
    IN  \E a, b \in 1..Len(read) : a < b /\ read[a] = i /\ read[b] = j

\* C25: within one conversation, when event A is fully processed before
\* event B starts, every message appended for A precedes every message
\* appended for B in the ledger; and for every event that produces a reply,
\* its triggering user message precedes its assistant message.
C25_LedgerFollowsProcessingOrder ==
    \A w \in Workers :
        (pc[w] # "idle" /\ conv_id[w] # None)
        => /\ \A j \in AppendedBy(w) :
                \A i \in LedgerOf(conv_id[w]) \ AppendedBy(w) :
                    ReadBefore(conv_id[w], i, j)
           /\ \A b \in 1..Len(trace[w]) :
                IsAssistantAppend(trace[w][b])
                => \E a \in 1..Len(trace[w]) :
                    /\ IsUserAppend(trace[w][a])
                    /\ ReadBefore(conv_id[w], trace[w][a].arg, trace[w][b].arg)

\* C25, its case: a second event of a conversation has been answered, some
\* time after the first, which was answered too.
C25_Witness ==
    \E w \in Workers :
        /\ pc[w] = "done"
        /\ Cardinality(AppendedBy(w)) = 2
        /\ Cardinality(LedgerOf(conv_id[w])) = 4
        /\ \E i \in LedgerOf(conv_id[w]), j \in AppendedBy(w) :
            messages[i].created_at < messages[j].created_at

\* C26: every received webhook is processed to a terminal outcome
\* (rejected, processed, or failed with an error response): whichever step
\* fails, processing of that event ends, the process keeps running, and a
\* later event on the same conversation is processed from the first step
\* again.
C26_EveryWebhookEnds ==
    /\ \A w \in Workers : (pc[w] # "idle") ~> (pc[w] = "done")
    /\ \A w \in Workers : (pc[w] = "done") ~> (pc[w] = "idle")
    /\ [](\A w \in Workers :
            /\ pc[w] = "done" => resp[w] \in {"401", "500", "processed"}
            /\ pc[w] = "idle"
                => /\ payload[w] = NoPayload /\ conv_id[w] = None
                   /\ ai_response[w] = NoResponse /\ trace[w] = <<>>)
    /\ [][\A w \in Workers :
            (pc[w] = "idle" /\ pc'[w] # "idle")
            => /\ pc'[w] \in {"get_conv", "archive", "done"}
               /\ UNCHANGED storeVars]_vars

\* C26, its case: the backend failed for the first event of a conversation,
\* which left its user message alone; a second event of the conversation
\* has been taken up from the first step and answered.
C26_Witness ==
    \E w \in Workers :
        /\ served = 2
        /\ pc[w] = "done" /\ resp[w] = "processed"
        /\ AppendedBy(w) = {2, 3}
        /\ LedgerOf(conv_id[w]) = {1, 2, 3}
        /\ messages[1].role = "user" /\ messages[2].role = "user"
        /\ messages[3].role = "assistant"

\* The positions of a batch that hold an object whose type tag is none of
\* create_file, update_file, create_pr, create_branch.
UnknownTagPositions(actions) ==
    {i \in 1..Len(actions) :
        /\ actions[i].obj
        /\ actions[i].type \notin {"create_file", "update_file", "create_pr",
                                   "create_branch"}}

\* Every entry of the batch up to position j is an object.
ObjectsUpTo(actions, j) == \A k \in 1..j : actions[k].obj

\* Worker w's executor is at an action with an unknown type tag.
AtUnknownTag(w) ==
    /\ pc[w] = "execute"
    /\ idx[w] \in UnknownTagPositions(ai_response[w].actions)

\* C29: an action whose type tag is not one of create_file, update_file,
\* create_pr, create_branch causes no external repository call and does not
\* stop the batch: the executor's step at it calls nothing and goes on to
\* the next position, and every later action of a known type is attempted
\* (as far as the batch holds objects).
C29_UnknownTagSkipped ==
    /\ [](\A w \in Workers :
            (pc[w] = "done" /\ Posted(w))
            => \A i \in UnknownTagPositions(ai_response[w].actions) :
                /\ \A c \in 1..Len(ActionCalls(w)) : ActionCalls(w)[c].arg # i
                /\ \A j \in (i + 1)..Len(ai_response[w].actions) :
                    (ObjectsUpTo(ai_response[w].actions, j)
                        /\ IsKnown(ai_response[w].actions[j]))
                    => \E c \in 1..Len(ActionCalls(w)) : ActionCalls(w)[c].arg = j)
    /\ [][\A w \in Workers :
            (AtUnknownTag(w) /\ (pc'[w] # pc[w] \/ idx'[w] # idx[w]))
            => /\ trace'[w] = trace[w]
               /\ IF idx[w] < Len(ai_response[w].actions)
                  THEN pc'[w] = "execute" /\ idx'[w] = idx[w] + 1
                  ELSE pc'[w] = "done" /\ resp'[w] = "processed"]_vars

\* C29, its case: a batch with an action of an unknown tag followed by a
\* known one has been executed; the known one was attempted.
C29_Witness ==
    \E w \in Workers :
        /\ pc[w] = "done" /\ Posted(w)
        /\ \E i \in UnknownTagPositions(ai_response[w].actions) :
            \E j \in (i + 1)..Len(ai_response[w].actions) :
                /\ IsKnown(ai_response[w].actions[j])
                /\ \E c \in 1..Len(ActionCalls(w)) : ActionCalls(w)[c].arg = j

\* Worker w has processed a delivery that says an issue was opened.
OpenedIssueProcessed(w) ==
    /\ payload[w] # NoPayload
    /\ payload[w].signature = "match"
    /\ payload[w].event = "issues"
    /\ payload[w].action = "opened"
    /\ pc[w] = "done"
    /\ resp[w] = "processed"

\* C30: for an issue 'opened' event, a conversation row holding the issue
\* body exists after the event is processed, even when the gating policy
\* rejects the event and no model call occurs.
C30_OpenedIssueAlwaysStored ==
    \A w \in Workers :
        OpenedIssueProcessed(w)
        => \E r \in ConversationsOf(payload[w]) :
            \E i \in LedgerOf(r.id) : messages[i].role = "user"

\* Appending the assistant message of worker w's event failed.
AssistantAppendFailed(w) ==
    \E i \in T(w) :
        /\ trace[w][i].op = "add_message"
        /\ trace[w][i].role = "assistant"
        /\ ~trace[w][i].ok

\* The comments worker w's event has posted, as positions of calls.
CommentsPosted(w) ==
    {c \in 1..Len(calls[w]) : calls[w][c].op = "create_issue_comment"}

\* C31: a comment is posted to the origin thread only after an assistant
\* message with the same content has been appended to the conversation in
\* the same event; if appending the assistant message fails, nothing is
\* posted and no action is executed for that event.
C31_PostedOnlyAfterPersisted ==
    \A w \in Workers :
        /\ \A j \in T(w) :
            IsComment(trace[w][j])
            => \E i \in 1..(j - 1) :
                /\ IsAssistantAppend(trace[w][i])
                /\ messages[trace[w][i].arg].conversation_id = conv_id[w]
                /\ messages[trace[w][i].arg].role = "assistant"
                /\ \A c \in CommentsPosted(w) :
                    calls[w][c].content = messages[trace[w][i].arg].content
        /\ Cardinality(CommentsPosted(w))
            = Cardinality({j \in T(w) : IsComment(trace[w][j])})
        /\ AssistantAppendFailed(w)
            => /\ calls[w] = <<>>
               /\ \A j \in T(w) : ~IsComment(trace[w][j]) /\ ~IsActionCall(trace[w][j])
               /\ pc[w] = "done"

\* C31, its case: the backend answered with a narrative and actions, the
\* assistant message could not be appended, and the event has ended.
C31_Witness ==
    \E w \in Workers :
        /\ pc[w] = "done"
        /\ AssistantAppendFailed(w)
        /\ ai_response[w].content # <<>>
        /\ \E i \in 1..Len(ai_response[w].actions) : IsKnown(ai_response[w].actions[i])

\* C32: every external repository call made while processing an event (file
\* create/update, branch creation, pull-request creation, comment) targets
\* the repository and installation named in that event's payload, and the
\* reply comment is posted to the issue or pull-request number of that
\* event; no content of the model's reply redirects a call.
C32_CallsTargetOrigin ==
    \A w \in Workers :
        /\ calls[w] # <<>> => payload[w] # NoPayload
        /\ \A c \in 1..Len(calls[w]) :
            /\ calls[w][c].installation_id = payload[w].installation_id
            /\ calls[w][c].repo_full_name = payload[w].repo_full_name
            /\ calls[w][c].op = "create_issue_comment"
                => calls[w][c].number = payload[w].number
        /\ Len(calls[w])
            = Cardinality({j \in T(w) : IsComment(trace[w][j]) \/ IsActionCall(trace[w][j])})

\* C32, its case: the reply carried an action that names another repository
\* and installation, and the action's call has been made.
C32_Witness ==
    \E w \in Workers :
        /\ pc[w] = "done"
        /\ \E i \in 1..Len(ai_response[w].actions) :
            /\ ai_response[w].actions[i].repository = "x/y"
            /\ ai_response[w].actions[i].installation_id = 2
            /\ \E c \in 1..Len(ActionCalls(w)) : ActionCalls(w)[c].arg = i
        /\ \E c \in 1..Len(calls[w]) : calls[w][c].op = "create_issue_comment"

\* C33: once a conversation's status is 'archived' it never becomes 'active'
\* or 'paused' again under any sequence of webhook events: later events on
\* the same key append messages and may invoke the model but leave the
\* status archived.
C33_ArchivedStaysArchived ==
    [][\A r \in conversations :
        r.status = "archived"
        => \A q \in conversations' : q.id = r.id => q.status = "archived"]_vars

\* C33, its case: a comment on an archived conversation has been answered:
\* its message and the reply were appended to the conversation.
C33_Witness ==
    \E w \in Workers :
        /\ pc[w] = "done"
        /\ \E r \in conversations : r.id = conv_id[w] /\ r.status = "archived"
        /\ \E i \in T(w) : IsUserAppend(trace[w][i])
        /\ \E i \in T(w) : IsAssistantAppend(trace[w][i])

\* C34: archiving on close of issue number n in repository r changes the
\* status of exactly the conversation with key (installation of the event,
\* r, issue, n) and leaves every other conversation unchanged, including a
\* conversation for the same r and n with a different context_type or
\* installation_id.
C34_ArchiveChangesOnlyItsKey ==
    [][\A w \in Workers :
        (pc[w] = "archive" /\ pc'[w] # "archive")
        => \A r \in conversations :
            IF Key(r) = <<payload[w].installation_id, payload[w].repo_full_name,
                          "issue", payload[w].number>>
            THEN \E q \in conversations' : q.id = r.id /\ q.status = "archived"
            ELSE r \in conversations']_vars

\* The key of the conversation an event is about: its installation and
\* repository, 'pull_request' for a pull_request event, a review, a review
\* comment and a comment on a pull request, 'issue' otherwise, its number.
EventKey(p) ==
    <<p.installation_id, p.repo_full_name,
      IF \/ p.event \in {"pull_request", "pull_request_review",
                         "pull_request_review_comment"}
         \/ (p.event = "issue_comment" /\ p.is_pr)
      THEN "pull_request" ELSE "issue",
      p.number>>

\* C35: all accepted events about the same pull request (pull_request
\* event, comment on the pull request, review, review comment) in the same
\* installation and repository resolve to the same conversation id, and a
\* comment on a plain issue resolves to the conversation of that issue; an
\* event never resolves to a conversation whose key differs from the
\* event's (installation, repository, context type, number).
C35_EventsResolveToTheirKey ==
    /\ \A w \in Workers :
        conv_id[w] # None
        => /\ \E r \in conversations : r.id = conv_id[w]
           /\ \A r \in conversations :
                r.id = conv_id[w] <=> Key(r) = EventKey(payload[w])
    /\ \A i \in 1..Len(messages) :
        \E r \in conversations : r.id = messages[i].conversation_id

\* C35, its case: a second kind of event about a pull request has been
\* resolved to the conversation that an earlier event of another kind made.
C35_Witness ==
    \E w \in Workers :
        /\ pc[w] = "done"
        /\ conv_id[w] # None
        /\ EventKey(payload[w])[3] = "pull_request"
        /\ \E i, j \in LedgerOf(conv_id[w]) :
            /\ messages[i].role = "user" /\ messages[j].role = "user"
            /\ messages[i].github_event_type # messages[j].github_event_type

\* Worker w has processed an accepted 'edited' delivery of an issue or a
\* pull request.
EditProcessed(w) ==
    /\ payload[w] # NoPayload
    /\ payload[w].signature = "match"
    /\ payload[w].event \in {"issues", "pull_request"}
    /\ payload[w].action = "edited"
    /\ Dispatch(payload[w]) \in Handlers
    /\ pc[w] = "done"
    /\ resp[w] = "processed"

\* The model backend was called for worker w's event.
ModelInvoked(w) == \E i \in T(w) : trace[w][i].op = "generate_response"

\* C36: for an accepted 'edited' issue or pull_request event that changes
\* title or body, the updated text is appended to the ledger as a user
\* message whether or not the edit is significant, and the model is invoked
\* only if the edit is significant (the title changed, or the old and the
\* new body differ in length by more than 50); an edit that changes neither
\* title nor body appends nothing and invokes nothing.
C36_EditAppendedModelOnlyIfSignificant ==
    \A w \in Workers :
        EditProcessed(w)
        => IF payload[w].changes.title \/ payload[w].changes.body
           THEN /\ \E i \in T(w) :
                    /\ IsUserAppend(trace[w][i])
                    /\ messages[trace[w][i].arg].conversation_id = conv_id[w]
                /\ ModelInvoked(w) => SignificantByLength(payload[w])
           ELSE \A i \in T(w) : trace[w][i].op \notin {"add_message", "generate_response"}

\* C37: processing one event invokes the model backend at most twice (the
\* first request, plus at most one fallback request with the 'openai' model
\* after a non-success response when the configured model is a different
\* known model), so the model step always ends with a reply or a failure.
C37_AtMostTwoBackendRequests ==
    backend.done
    => /\ Len(backend.requests) \in {1, 2}
       /\ backend.requests[1] = backend.default_model
       /\ Len(backend.requests) = 2
            <=> /\ backend.outcomes[1] = "non-200"
                /\ backend.default_model # "openai"
                /\ backend.default_model \in
                    {"openai-fast", "qwen-coder", "llama", "mistral"}
       /\ Len(backend.requests) = 2 => backend.requests[2] = "openai"
       /\ backend.raised
            <=> backend.outcomes[Len(backend.requests)] # "200"

\* C37, its case: the configured model and the fallback were both refused,
\* and the backend would have refused a third request too.
C37_Witness ==
    /\ backend.done
    /\ backend.raised
    /\ backend.requests = <<"qwen-coder", "openai">>
    /\ \A k \in 1..MaxRequests : backend.outcomes[k] = "non-200"

\* The raw reply opens a fence that is never closed.
FenceUnclosed(text) ==
    /\ HasFenceOpen(text)
    /\ JsonEnd(text, Find(text, FenceOpen, 1)) = 0

\* C38: parse returns a result for every raw reply and never raises: when
\* the fence is opened but never closed, or the fenced block decodes to a
\* value that is not an object (a number, null), the narrative is still
\* returned with an empty action list.
C38_ParseNeverRaises ==
    parsed.done
    => /\ ~parsed.result.raised
       /\ FenceUnclosed(raw)
            => parsed.result.content = raw /\ parsed.result.actions = <<>>

====
